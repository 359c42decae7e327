---------------------- MODULE CredentialCooldown_proofs ----------------------
(***************************************************************************)
(* Proofs about CredentialCooldown, for any models, durations, hints and   *)
(* bounds on the run.                                                      *)
(***************************************************************************)
EXTENDS CredentialCooldown, TLAPS, FiniteSetTheorems

-----------------------------------------------------------------------------
\* Least and greatest numbers; the powers of two.

\* Every inhabited set of numbers has a least one.
LEMMA LeastNumber ==
  ASSUME NEW S \in SUBSET Nat, S # {}
  PROVE  \E n \in S : \A k \in S : n <= k
<1>1. \E n \in S : \A k \in S : ~(<<k, n>> \in OpToRel(<, Nat))
  BY NatLessThanWellFounded, WFMin
<1>2. PICK n \in S : \A k \in S : ~(<<k, n>> \in OpToRel(<, Nat))
  BY <1>1
<1>3. \A k \in S : ~(k < n)
  BY <1>2 DEF OpToRel
<1> QED BY <1>3

LEMMA MinOfNumbers ==
  ASSUME NEW S \in SUBSET Nat, S # {}
  PROVE  Min(S) \in S /\ \A k \in S : Min(S) <= k
<1>1. \E n \in S : \A k \in S : n <= k
  BY LeastNumber
<1> QED BY <1>1 DEF Min

LEMMA MaxOfNumbers ==
  ASSUME NEW b \in Nat, NEW S \in SUBSET (0..b), S # {}
  PROVE  Max(S) \in S /\ \A k \in S : k <= Max(S)
<1> DEFINE T == {b - k : k \in S}
<1>1. T \in SUBSET Nat /\ T # {}
  <2>1. \A k \in S : b - k \in Nat
    OBVIOUS
  <2>2. T \in SUBSET Nat
    BY <2>1
  <2>3. PICK k \in S : TRUE
    OBVIOUS
  <2>4. b - k \in T
    BY <2>3
  <2> QED BY <2>2, <2>4
<1>2. PICK n \in T : \A k \in T : n <= k
  BY <1>1, LeastNumber
<1>3. PICK j \in S : n = b - j
  BY <1>2
<1>4. \A k \in S : b - j <= b - k
  BY <1>2, <1>3
<1>5. \A k \in S : j >= k
  BY <1>4
<1>6. \E x \in S : \A y \in S : x >= y
  BY <1>5
<1>7. Max(S) \in S /\ \A y \in S : Max(S) >= y
  BY <1>6 DEF Max
<1> QED BY <1>7

\* The latest of some instants, the zero time when there is none.
LEMMA Latest ==
  ASSUME NEW b \in Nat, NEW S \in SUBSET (0..b)
  PROVE  /\ MaxOf(S) \in 0..b
         /\ MaxOf(S) \in S \cup {0}
         /\ \A k \in S : k <= MaxOf(S)
<1>1. S \cup {Zero} \in SUBSET (0..b) /\ S \cup {Zero} # {}
  BY DEF Zero
<1>2. MaxOf(S) \in S \cup {Zero} /\ \A k \in S \cup {Zero} : k <= MaxOf(S)
  BY <1>1, MaxOfNumbers DEF MaxOf
<1> QED BY <1>1, <1>2 DEF Zero

LEMMA LaterOf ==
  ASSUME NEW x \in Nat, NEW y \in Nat
  PROVE  /\ MaxOf({x, y}) \in {x, y}
         /\ MaxOf({x, y}) \in Nat
         /\ x <= MaxOf({x, y}) /\ y <= MaxOf({x, y})
<1>1. {x, y} \in SUBSET (0..(x + y))
  OBVIOUS
<1> HIDE DEF MaxOf
<1>2. /\ MaxOf({x, y}) \in {x, y} \cup {0}
      /\ \A k \in {x, y} : k <= MaxOf({x, y})
  BY <1>1, Latest
<1> QED BY <1>2

\* The earliest of the deadlines that are set, the zero time when none is.
LEMMA Earliest ==
  ASSUME NEW S \in SUBSET Nat
  PROVE  /\ EarliestOf(S) \in S \cup {0}
         /\ EarliestOf(S) \in Nat
         /\ \A k \in S \ {0} : EarliestOf(S) # 0 /\ EarliestOf(S) <= k
<1>1. CASE S \ {Zero} = {}
  BY <1>1 DEF EarliestOf, Zero
<1>2. CASE S \ {Zero} # {}
  <2>1. /\ Min(S \ {Zero}) \in S \ {Zero}
        /\ \A k \in S \ {Zero} : Min(S \ {Zero}) <= k
    BY <1>2, MinOfNumbers
  <2> QED BY <1>2, <2>1 DEF EarliestOf, Zero
<1> QED BY <1>1, <1>2

\* 2^n counts the subsets of 1..n, among which are 1..0 to 1..n.
LEMMA PowerOfTwo ==
  ASSUME NEW n \in Nat
  PROVE  2^n \in Nat /\ n < 2^n
<1> DEFINE f == [i \in 0..n |-> 1..i]
<1>1. IsFiniteSet(1..n) /\ Cardinality(1..n) = n
  BY FS_Interval
<1>2. IsFiniteSet(0..n) /\ Cardinality(0..n) = n + 1
  BY FS_Interval
<1>3. IsFiniteSet(SUBSET (1..n)) /\ Cardinality(SUBSET (1..n)) = 2^n
  BY <1>1, FS_SUBSET
<1>4. f \in [0..n -> SUBSET (1..n)]
  OBVIOUS
<1>5. ASSUME NEW i \in 0..n, NEW j \in 0..n, f[i] = f[j] PROVE i = j
  <2>1. 1..i = 1..j
    BY <1>5
  <2>2. i > j => i \in 1..i
    OBVIOUS
  <2>3. j > i => j \in 1..j
    OBVIOUS
  <2> QED BY <2>1, <2>2, <2>3
<1>6. f \in Injection(0..n, SUBSET (1..n))
  BY <1>4, <1>5 DEF Injection, IsInjective
<1>7. Cardinality(0..n) <= Cardinality(SUBSET (1..n))
  BY <1>3, <1>6, FS_Injection
<1>8. Cardinality(SUBSET (1..n)) \in Nat
  BY <1>3, FS_CardinalityType
<1> QED BY <1>2, <1>3, <1>7, <1>8

-----------------------------------------------------------------------------
\* What a failure earns.

\* A cell whose flags and deadlines go together: a quota is exceeded exactly
\* while it has a deadline, and nothing is unavailable without one.
SoundQuota(q) == q.exceeded <=> q.recover # Zero
Sound(c) == /\ SoundQuota(c.quota)
            /\ c.unavailable => c.retry # Zero \/ c.quota.recover # Zero
SoundCells == {c \in Cell : Sound(c)}

\* The constants, one by one.
LEMMA Durations ==
  /\ QuotaBase \in Nat \ {0} /\ QuotaMax \in Nat \ {0} /\ QuotaFloor \in Nat \ {0}
  /\ AuthCooldown \in Nat \ {0} /\ SupportCooldown \in Nat \ {0}
  /\ TransientCooldown \in Nat \ {0} /\ Longest \in Nat /\ QuotaBase <= QuotaMax
  /\ QuotaMax <= Longest /\ QuotaFloor <= Longest /\ AuthCooldown <= Longest
  /\ SupportCooldown <= Longest /\ TransientCooldown <= Longest
  /\ Horizon \in Nat /\ Horizon = MaxTime + Longest
  /\ MaxTime \in Nat \ {0}
BY DurationAssumption, BoundAssumption DEF Horizon

\* So is a failure.
LEMMA FailureType ==
  ASSUME NEW f \in Failures
  PROVE  /\ f.kind \in Kinds /\ f.hint \in Nat /\ f.hint <= Longest
         /\ f.force \in BOOLEAN /\ f.credentialScope \in BOOLEAN
         /\ f.credentialScope => f.kind = "quota"
<1>1. /\ f \in [kind : KindsSeen, hint : Hints \cup {Zero},
                 credentialScope : BOOLEAN, force : BOOLEAN]
      /\ f.credentialScope => f.kind = "quota"
  BY DEF Failures
<1>2. \A h \in Hints \cup {Zero} : h \in Nat /\ h <= Longest
  BY DurationAssumption DEF Zero
<1> QED BY <1>1, <1>2, KindsAssumption

\* A rung of the ladder leads to itself or to the next one, and its cooldown
\* is at most QuotaMax.
LEMMA Rung ==
  ASSUME NEW level \in Rungs
  PROVE  /\ nextQuotaCooldown(level).wait \in 1..QuotaMax
         /\ nextQuotaCooldown(level).level \in Rungs
         /\ level <= nextQuotaCooldown(level).level
<1> DEFINE p == 2^level
<1>1. level \in Nat
  BY Durations DEF Rungs
<1>2. p \in Nat /\ level < p
  BY <1>1, PowerOfTwo
<1> HIDE DEF p
<1>3. QuotaBase * p \in Nat /\ QuotaBase * p >= p
  BY <1>2, Durations
<1>4. CASE QuotaBase * p >= QuotaMax
  BY <1>1, <1>4, Durations DEF nextQuotaCooldown, p
<1>5. CASE QuotaBase * p < QuotaMax
  <2>1. level + 1 \in 0..QuotaMax
    BY <1>1, <1>2, <1>3, <1>5, Durations
  <2>2. (level + 1) - 1 = level
    BY <1>1
  <2>3. QuotaBase * 2^((level + 1) - 1) < QuotaMax
    BY <1>5, <2>2 DEF p
  <2>4. level + 1 \in Rungs
    BY <2>1, <2>3 DEF Rungs
  <2>5. nextQuotaCooldown(level) = [wait |-> QuotaBase * p, level |-> level + 1]
    BY <1>3, <1>5, Durations DEF nextQuotaCooldown, p
  <2>6. QuotaBase * p \in 1..QuotaMax
    BY <1>1, <1>2, <1>3, <1>5, Durations
  <2> QED BY <1>1, <2>4, <2>5, <2>6
<1> QED BY <1>3, <1>4, <1>5, Durations

\* An outcome's deadline and rung, when cooling applies: in the future, within
\* the horizon, and never a lower rung.
Earned(next, q) ==
  /\ next.until \in Nat /\ next.until > now /\ next.until <= Horizon
  /\ next.level \in Rungs /\ q.level <= next.level

\* The fields of a quota state.
LEMMA QuotaType ==
  ASSUME NEW q \in Quota
  PROVE  /\ q.exceeded \in BOOLEAN /\ q.recover \in 0..Horizon
         /\ q.level \in Rungs /\ q.level \in Nat
         /\ q.reason \in {"", "quota", "cloudflare", "credential_quota"}
<1>1. \A n \in Rungs : n \in Nat
  BY Durations DEF Rungs
<1> QED BY <1>1 DEF Quota

\* A quota failure earns a window; one that must keep the open window's
\* deadline does.
LEMMA QuotaFailureEarns ==
  ASSUME now \in 1..MaxTime, NEW q \in Quota, NEW hint \in 0..Longest,
         NEW held \in BOOLEAN
  PROVE  /\ Earned(quotaFailure(q, hint, FALSE, held), q)
         /\ held => quotaFailure(q, hint, FALSE, held).until >= q.recover
<1> DEFINE next == IF hint # Zero
                   THEN [until |-> now + MaxOf({hint, QuotaFloor}), level |-> q.level]
                   ELSE quotaCooldownAfterFailure(q)
<1>1. /\ now \in Nat \ {0} /\ now <= MaxTime /\ q.recover \in 0..Horizon /\ q.level \in Rungs
      /\ q.level \in Nat
  <2>1. now \in Nat \ {0} /\ now <= MaxTime
    BY Durations
  <2> QED BY <2>1, QuotaType
<1>2. Earned(next, q) /\ next = [until |-> next.until, level |-> next.level]
  <2>1. CASE hint # Zero
    <3>1. MaxOf({hint, QuotaFloor}) \in 1..Longest
      <4>1. hint \in Nat /\ QuotaFloor \in Nat
        BY Durations
      <4> QED BY <4>1, LaterOf, Durations
    <3> HIDE DEF MaxOf
    <3> QED BY <1>1, <2>1, <3>1, Durations DEF Earned
  <2>2. CASE hint = Zero
    <3>1. CASE q.recover > now
      BY <1>1, <2>2, <3>1 DEF quotaCooldownAfterFailure, Earned
    <3>2. CASE ~(q.recover > now)
      <4> DEFINE rung == nextQuotaCooldown(q.level)
      <4>1. rung.wait \in 1..QuotaMax /\ rung.level \in Rungs /\ q.level <= rung.level
        BY <1>1, Rung
      <4>2. next = [until |-> now + rung.wait, level |-> rung.level]
        BY <2>2, <3>2 DEF quotaCooldownAfterFailure
      <4> HIDE DEF rung, next
      <4> QED BY <1>1, <4>1, <4>2, Durations DEF Earned
    <3> QED BY <3>1, <3>2
  <2> QED BY <2>1, <2>2
<1> HIDE DEF next
<1> DEFINE until == IF held THEN MaxOf({next.until, q.recover}) ELSE next.until
<1>3. quotaFailure(q, hint, FALSE, held) = [until |-> until, level |-> next.level]
  BY <1>2 DEF quotaFailure, next
<1>4. /\ until \in {next.until, q.recover} /\ until >= next.until
      /\ held => until >= q.recover
  BY <1>1, <1>2, LaterOf DEF Earned
<1> HIDE DEF until
<1>5. until \in Nat /\ until > now /\ until <= Horizon
  BY <1>1, <1>2, <1>4, Durations DEF Earned
<1>6. next.level \in Rungs /\ q.level <= next.level
  BY <1>2 DEF Earned
<1>7. Earned([until |-> until, level |-> next.level], q)
  BY <1>5, <1>6 DEF Earned
<1>8. [until |-> until, level |-> next.level].until = until
  OBVIOUS
<1> QED BY ONLY <1>3, <1>4, <1>7, <1>8, Zenon

\* So does a Cloudflare challenge.
LEMMA CloudflareEarns ==
  ASSUME now \in 1..MaxTime, NEW q \in Quota
  PROVE  Earned(nextCloudflareCooldown(q, FALSE), q)
<1> DEFINE rung == nextQuotaCooldown(q.level)
           wait == MaxOf({rung.wait, QuotaFloor})
<1>1. now \in Nat \ {0} /\ now <= MaxTime /\ q.level \in Rungs /\ q.level \in Nat
  <2>1. now \in Nat \ {0} /\ now <= MaxTime
    BY Durations
  <2> QED BY <2>1, QuotaType
<1>2. rung.wait \in 1..QuotaMax /\ rung.level \in Rungs /\ q.level <= rung.level
  BY <1>1, Rung
<1>3. nextCloudflareCooldown(q, FALSE) = [until |-> now + wait, level |-> rung.level]
  BY DEF nextCloudflareCooldown
<1> HIDE DEF rung
<1>4. wait \in 1..Longest
  <2>1. rung.wait \in Nat /\ QuotaFloor \in Nat
    BY <1>2, Durations
  <2> QED BY <1>2, <2>1, LaterOf, Durations
<1> HIDE DEF wait
<1>5. now + wait \in Nat /\ now + wait > now /\ now + wait <= Horizon
  BY <1>1, <1>4, Durations
<1>6. Earned([until |-> now + wait, level |-> rung.level], q)
  BY <1>2, <1>5 DEF Earned
<1> QED BY <1>3, <1>6, Zenon

-----------------------------------------------------------------------------
\* The cell of a model, through a failure.

\* The fields of a cell, and a cell built from its fields.
LEMMA CellType ==
  ASSUME NEW c \in Cell
  PROVE  /\ c.unavailable \in BOOLEAN /\ c.failed \in BOOLEAN /\ c.err \in Errors
         /\ c.retry \in 0..Horizon /\ c.quota \in Quota
BY Zenon DEF Cell

\* The cell p has these fields.
CellIs(p, unavailable, failed, err, retry, quota) ==
  /\ p \in Cell /\ p.unavailable = unavailable /\ p.failed = failed /\ p.err = err
  /\ p.retry = retry /\ p.quota = quota

\* The ways the code rewrites a cell.
LEMMA CellFailed ==
  ASSUME NEW c \in Cell, NEW e \in Errors
  PROVE  CellIs([c EXCEPT !.unavailable = TRUE, !.failed = TRUE, !.err = e],
                TRUE, TRUE, e, c.retry, c.quota)
BY DEF Cell, CellIs

LEMMA CellRetries ==
  ASSUME NEW c, NEW u, NEW w, NEW e, NEW r0, NEW q, CellIs(c, u, w, e, r0, q),
         NEW r \in 0..Horizon, NEW p, p = [c EXCEPT !.retry = r]
  PROVE  CellIs(p, u, w, e, r, q)
<1>1. CellIs([c EXCEPT !.retry = r], c.unavailable, c.failed, c.err, r, c.quota)
  BY DEF Cell, CellIs
<1> QED BY <1>1 DEF CellIs

LEMMA CellCounted ==
  ASSUME NEW c, NEW u, NEW w, NEW e, NEW r0, NEW q0, CellIs(c, u, w, e, r0, q0),
         NEW r \in 0..Horizon, NEW q \in Quota,
         NEW p, p = [c EXCEPT !.retry = r, !.quota = q]
  PROVE  CellIs(p, u, w, e, r, q)
<1>1. CellIs([c EXCEPT !.retry = r, !.quota = q], c.unavailable, c.failed, c.err, r, q)
  BY DEF Cell, CellIs
<1> QED BY <1>1 DEF CellIs

LEMMA CellOf ==
  ASSUME NEW u \in BOOLEAN, NEW w \in BOOLEAN, NEW e \in Errors, NEW r \in 0..Horizon,
         NEW q \in Quota
  PROVE  [unavailable |-> u, failed |-> w, err |-> e, retry |-> r, quota |-> q] \in Cell
BY DEF Cell

LEMMA QuotaOf ==
  ASSUME NEW x \in BOOLEAN, NEW r \in 0..Horizon, NEW n \in Rungs,
         NEW s \in {"", "quota", "cloudflare", "credential_quota"}
  PROVE  [exceeded |-> x, reason |-> s, recover |-> r, level |-> n] \in Quota
BY DEF Quota

\* What a failure leaves in the cell before the closing adjustments.
PenalisedAs(p, c, kind, off, held) ==
  /\ p \in Cell /\ p.failed /\ p.err = ErrorClass(kind)
  /\ off => p.retry = Zero /\ (p.quota = c.quota \/ p.quota.recover = Zero)
  /\ ~off => Sound(p) /\ (p.retry > now \/ kind = "transient")
  /\ ~off /\ kind \in {"quota", "cloudflare"} =>
       p.quota.exceeded /\ p.retry = p.quota.recover /\ p.quota.recover > now
  /\ ~off /\ kind = "quota" /\ held => p.quota.recover >= c.quota.recover
  /\ kind \notin {"quota", "cloudflare"} => p.quota = c.quota
  /\ kind # "transient" => p.unavailable
  /\ kind = "transient" => (p.unavailable <=> p.retry # Zero)
  /\ kind = "transient" /\ p.retry # Zero => p.retry > now
  /\ kind = "transient" /\ ~off /\ ~TransientDisabled => p.retry # Zero
  /\ kind # "cloudflare" /\ c.quota.recover > now => p.quota.level = c.quota.level
  /\ p.quota.level >= c.quota.level

\* A failure that counts towards the quota.
LEMMA CountedAs ==
  ASSUME now \in 1..MaxTime, NEW c \in SoundCells, NEW kind \in {"quota", "cloudflare"},
         NEW off \in BOOLEAN, NEW held \in BOOLEAN, NEW until \in 0..Horizon,
         NEW level \in Rungs, NEW p,
         CellIs(p, TRUE, TRUE, ErrorClass(kind), until,
                [exceeded |-> TRUE, reason |-> kind, recover |-> until, level |-> level]),
         off => until = Zero, ~off => until > now, level >= c.quota.level,
         ~off /\ kind = "quota" /\ held => until >= c.quota.recover,
         kind = "quota" /\ c.quota.recover > now => level = c.quota.level
  PROVE  PenalisedAs(p, c, kind, off, held)
<1>1. /\ p \in Cell /\ p.unavailable /\ p.failed /\ p.err = ErrorClass(kind)
      /\ p.retry = until /\ p.quota.recover = until /\ p.quota.exceeded
      /\ p.quota.level = level
  BY DEF CellIs
<1>2. kind # "transient" /\ now \in Nat /\ until \in Nat
  BY Durations
<1>3. ~off => Sound(p)
  BY <1>1, <1>2 DEF Sound, SoundQuota, Zero
<1> QED BY <1>1, <1>2, <1>3 DEF PenalisedAs, Zero

LEMMA PenalisedFacts ==
  ASSUME now \in 1..MaxTime, NEW c \in SoundCells, NEW f \in Failures,
         NEW off \in BOOLEAN, NEW held \in BOOLEAN
  PROVE  PenalisedAs(Penalised(c, f.kind, f.hint, off, held), c, f.kind, off, held)
<1> DEFINE err == ErrorClass(f.kind)
           base == [c EXCEPT !.unavailable = TRUE, !.failed = TRUE, !.err = err]
           p == Penalised(c, f.kind, f.hint, off, held)
           As(u, r, q) == CellIs(p, u, TRUE, err, r, q)
<1>1. c \in Cell /\ Sound(c)
  BY DEF SoundCells
<1>2. c.quota \in Quota /\ c.retry \in 0..Horizon
  BY <1>1, CellType
<1>4. /\ err \in Errors /\ now \in Nat \ {0} /\ now <= MaxTime /\ Horizon \in Nat
      /\ f.hint \in 0..Longest
  BY FailureType, Durations DEF ErrorClass, Errors
<1>5. /\ c.quota.recover \in 0..Horizon /\ c.quota.level \in Rungs /\ c.quota.level \in Nat
  BY <1>2, QuotaType
<1>3. CellIs(base, TRUE, TRUE, err, c.retry, c.quota)
  BY <1>1, <1>4, CellFailed
<1> HIDE DEF base
<1>7. ASSUME NEW d \in 1..Longest, NEW r, r = (IF off THEN Zero ELSE now + d),
             Penalised(c, f.kind, f.hint, off, held) = [base EXCEPT !.retry = r],
             f.kind \in {"unauthorized", "payment", "notFound"}
      PROVE  PenalisedAs(p, c, f.kind, off, held)
  <2>1. r \in 0..Horizon /\ (off => r = Zero) /\ (~off => r > now)
    BY <1>4, <1>7, Durations DEF Zero
  <2>2. As(TRUE, r, c.quota)
    BY <1>3, <1>7, <2>1, CellRetries, Zenon
  <2> HIDE DEF p
  <2> QED BY <1>1, <1>4, <1>5, <1>7, <2>1, <2>2 DEF PenalisedAs, CellIs, Sound, Zero
<1>8. ASSUME NEW next, NEW reason \in {"quota", "cloudflare"}, f.kind = reason,
             next.until \in 0..Horizon, next.level \in Rungs,
             p = [base EXCEPT !.retry = next.until,
                              !.quota = [exceeded |-> TRUE, reason |-> reason,
                                         recover |-> next.until, level |-> next.level]]
      PROVE  CellIs(p, TRUE, TRUE, err, next.until,
                    [exceeded |-> TRUE, reason |-> reason, recover |-> next.until,
                     level |-> next.level])
  <2> DEFINE q == [exceeded |-> TRUE, reason |-> reason, recover |-> next.until,
                   level |-> next.level]
  <2>1. q \in Quota
    BY <1>8, QuotaOf
  <2> HIDE DEF q, p
  <2>2. p = [base EXCEPT !.retry = next.until, !.quota = q]
    BY <1>8 DEF q
  <2>3. CellIs(p, TRUE, TRUE, err, next.until, q)
    BY <1>3, <1>8, <2>1, <2>2, CellCounted, Zenon
  <2> QED BY <2>3 DEF q
<1>9. CASE f.kind \in {"unauthorized", "payment"}
  <2>1. p = [base EXCEPT !.retry = IF off THEN Zero ELSE now + AuthCooldown]
    BY <1>9 DEF Penalised, base
  <2>2. AuthCooldown \in 1..Longest
    BY Durations
  <2> QED BY <1>7, <1>9, <2>1, <2>2, Zenon
<1>10. CASE f.kind = "notFound"
  <2>1. p = [base EXCEPT !.retry = IF off THEN Zero ELSE now + SupportCooldown]
    BY <1>10 DEF Penalised, base
  <2>2. SupportCooldown \in 1..Longest
    BY Durations
  <2> QED BY <1>7, <1>10, <2>1, <2>2, Zenon
<1>11. CASE f.kind = "quota"
  <2> DEFINE next == quotaFailure(c.quota, f.hint, off, held)
  <2>1. /\ next.until \in 0..Horizon /\ next.level \in Rungs
        /\ off => next.until = Zero
        /\ ~off => next.until > now
        /\ next.level >= c.quota.level
        /\ ~off /\ held => next.until >= c.quota.recover
        /\ c.quota.recover > now => next.level = c.quota.level
    <3>1. CASE off
      <4>1. next = [until |-> Zero, level |-> c.quota.level]
        BY <3>1 DEF quotaFailure
      <4> HIDE DEF next
      <4> QED BY <1>4, <1>5, <3>1, <4>1 DEF Zero
    <3>2. CASE ~off
      <4>1. next = quotaFailure(c.quota, f.hint, FALSE, held)
        BY <3>2 DEF quotaFailure
      <4>2. Earned(next, c.quota)
        BY <1>2, <1>4, <4>1, QuotaFailureEarns
      <4>3. held => next.until >= c.quota.recover
        BY <1>2, <1>4, <4>1, QuotaFailureEarns
      <4>4. c.quota.recover > now => next.level = c.quota.level
        BY <3>2 DEF quotaFailure, quotaCooldownAfterFailure
      <4>5. next.level \in Nat
        BY <4>2, Durations DEF Earned, Rungs
      <4> HIDE DEF next
      <4> QED BY <1>4, <1>5, <3>2, <4>2, <4>3, <4>4, <4>5 DEF Earned
    <3> QED BY <3>1, <3>2
  <2>2. p = [base EXCEPT !.retry = next.until,
                         !.quota = [exceeded |-> TRUE, reason |-> "quota",
                                    recover |-> next.until, level |-> next.level]]
    BY <1>11 DEF Penalised, base
  <2> HIDE DEF p, next
  <2>3. CellIs(p, TRUE, TRUE, ErrorClass("quota"), next.until,
               [exceeded |-> TRUE, reason |-> "quota", recover |-> next.until,
                level |-> next.level])
    BY <1>8, <1>11, <2>1, <2>2
  <2>4. PenalisedAs(p, c, "quota", off, held)
    BY <2>1, <2>3, CountedAs
  <2> QED BY <1>11, <2>4 DEF p
<1>12. CASE f.kind = "cloudflare"
  <2> DEFINE next == nextCloudflareCooldown(c.quota, off)
  <2>1. /\ next.until \in 0..Horizon /\ next.level \in Rungs
        /\ off => next.until = Zero
        /\ ~off => next.until > now
        /\ next.level >= c.quota.level
    <3>1. CASE off
      <4>1. next = [until |-> Zero, level |-> c.quota.level]
        BY <3>1 DEF nextCloudflareCooldown
      <4> HIDE DEF next
      <4> QED BY <1>4, <1>5, <3>1, <4>1 DEF Zero
    <3>2. CASE ~off
      <4>1. next = nextCloudflareCooldown(c.quota, FALSE)
        BY <3>2 DEF nextCloudflareCooldown
      <4>2. Earned(next, c.quota)
        BY <1>2, <1>4, <4>1, CloudflareEarns
      <4>5. next.level \in Nat
        BY <4>2, Durations DEF Earned, Rungs
      <4> HIDE DEF next
      <4> QED BY <1>4, <1>5, <3>2, <4>2, <4>5 DEF Earned
    <3> QED BY <3>1, <3>2
  <2>2. p = [base EXCEPT !.retry = next.until,
                         !.quota = [exceeded |-> TRUE, reason |-> "cloudflare",
                                    recover |-> next.until, level |-> next.level]]
    BY <1>12 DEF Penalised, base
  <2> HIDE DEF p, next
  <2>3. CellIs(p, TRUE, TRUE, ErrorClass("cloudflare"), next.until,
               [exceeded |-> TRUE, reason |-> "cloudflare", recover |-> next.until,
                level |-> next.level])
    BY <1>8, <1>12, <2>1, <2>2
  <2>4. PenalisedAs(p, c, "cloudflare", off, held)
    BY <2>1, <2>3, CountedAs
  <2> QED BY <1>12, <2>4 DEF p
<1>13. CASE f.kind = "transient"
  <2> DEFINE r == recoverableFailureRetryAfter(f.hint, off)
  <2>1. p = [base EXCEPT !.retry = r, !.unavailable = r # Zero]
    BY <1>13 DEF Penalised, base
  <2>2. /\ r \in 0..Horizon /\ (off => r = Zero) /\ (r # Zero => r > now)
        /\ ~off /\ ~TransientDisabled => r # Zero
    <3>1. CASE off \/ TransientDisabled
      BY <1>4, <3>1 DEF recoverableFailureRetryAfter, Zero
    <3>2. CASE ~(off \/ TransientDisabled)
      <4>1. r = now + (IF f.hint # Zero THEN f.hint ELSE TransientCooldown)
        BY <3>2 DEF recoverableFailureRetryAfter
      <4>2. CASE f.hint # Zero
        BY <1>4, <3>2, <4>1, <4>2, Durations DEF Zero
      <4>3. CASE f.hint = Zero
        BY <1>4, <3>2, <4>1, <4>3, Durations DEF Zero
      <4> HIDE DEF r
      <4> QED BY <4>2, <4>3
    <3> QED BY <3>1, <3>2
  <2> HIDE DEF r
  <2> DEFINE u == r # Zero
  <2>3. u \in BOOLEAN
    OBVIOUS
  <2>4. p = [base EXCEPT !.retry = r, !.unavailable = u]
    BY <2>1
  <2>5. r \in 0..Horizon
    BY <2>2
  <2> HIDE DEF p, u
  <2>6. CellIs([base EXCEPT !.retry = r, !.unavailable = u],
               u, TRUE, err, r, c.quota)
    BY <1>3, <2>3, <2>5 DEF CellIs, Cell
  <2>7. /\ p \in Cell /\ p.failed /\ p.err = ErrorClass(f.kind)
        /\ p.retry = r /\ p.quota = c.quota
        /\ p.unavailable <=> p.retry # Zero
    BY <2>4, <2>6 DEF CellIs, u
  <2>8. ~off => Sound(p)
    BY <1>1, <2>7 DEF Sound
  <2>9. PenalisedAs(p, c, "transient", off, held)
    BY <1>5, <1>13, <2>2, <2>7, <2>8 DEF PenalisedAs
  <2> QED BY <1>13, <2>9 DEF p
<1> HIDE DEF p
<1>14. f.kind \in Kinds
  BY FailureType
<1> QED BY <1>9, <1>10, <1>11, <1>12, <1>13, <1>14 DEF Kinds, p

\* With cooling disabled a cell without a deadline is freed; nothing else changes.
LEMMA RelaxedFacts ==
  ASSUME NEW c \in Cell, NEW off \in BOOLEAN
  PROVE  LET d == Relaxed(c, off)
         IN  /\ d \in Cell /\ d.failed = c.failed /\ d.err = c.err /\ d.retry = c.retry
             /\ d.quota.recover = c.quota.recover /\ d.quota.level = c.quota.level
             /\ IF off /\ c.retry = Zero /\ c.quota.recover = Zero
                THEN ~d.unavailable /\ ~d.quota.exceeded ELSE d = c
<1> DEFINE d == [c EXCEPT !.unavailable = FALSE, !.quota.exceeded = FALSE]
<1>1. /\ d \in Cell /\ d.failed = c.failed /\ d.err = c.err /\ d.retry = c.retry
      /\ d.quota.recover = c.quota.recover /\ d.quota.level = c.quota.level
      /\ ~d.unavailable /\ ~d.quota.exceeded
  BY DEF Cell, Quota
<1>2. CASE off /\ c.retry = Zero /\ c.quota.recover = Zero
  <2>1. Relaxed(c, off) = d
    BY <1>2 DEF Relaxed
  <2> HIDE DEF d
  <2> QED BY <1>1, <1>2, <2>1
<1>3. CASE ~(off /\ c.retry = Zero /\ c.quota.recover = Zero)
  <2>1. Relaxed(c, off) = c
    BY <1>3 DEF Relaxed
  <2> QED BY <1>3, <2>1
<1> QED BY <1>2, <1>3

\* A forced cooldown gives a deadline to the cell that has none.
LEMMA ForcedFacts ==
  ASSUME now \in 1..MaxTime, NEW c \in Cell, NEW force \in BOOLEAN
  PROVE  LET d == Forced(c, force)
         IN  /\ d \in Cell /\ d.failed = c.failed /\ d.err = c.err /\ d.quota = c.quota
             /\ IF force /\ c.retry = Zero
                THEN d.unavailable /\ d.retry > now ELSE d = c
<1> DEFINE r == now + TransientCooldown
           d == [c EXCEPT !.retry = r, !.unavailable = TRUE]
<1>1. r \in 0..Horizon /\ r > now
  BY Durations
<1> HIDE DEF r
<1>2. /\ d \in Cell /\ d.failed = c.failed /\ d.err = c.err /\ d.quota = c.quota
      /\ d.unavailable /\ d.retry = r
  BY <1>1 DEF Cell
<1>3. CASE force /\ c.retry = Zero
  <2>1. Forced(c, force) = d
    BY <1>3 DEF Forced, r
  <2> HIDE DEF d
  <2> QED BY <1>1, <1>2, <1>3, <2>1
<1>4. CASE ~(force /\ c.retry = Zero)
  <2>1. Forced(c, force) = c
    BY <1>4 DEF Forced
  <2> QED BY <1>4, <2>1
<1> QED BY <1>3, <1>4

\* The earlier deadline is kept by a cell that has one of its own.
LEMMA ExtendedFacts ==
  ASSUME now \in 1..MaxTime, NEW c \in Cell, NEW previous \in 0..Horizon
  PROVE  LET d == Extended(c, previous)
         IN  /\ d \in Cell /\ d.failed = c.failed /\ d.err = c.err /\ d.quota = c.quota
             /\ d.unavailable = c.unavailable
             /\ IF c.retry # Zero /\ previous > now
                THEN d.retry >= c.retry /\ d.retry >= previous /\ d.retry \in {c.retry, previous}
                ELSE d = c
<1> DEFINE r == MaxOf({c.retry, previous})
           d == [c EXCEPT !.retry = r]
<1>1. c.retry \in 0..Horizon /\ Horizon \in Nat
  BY CellType, Durations
<1>2. r \in {c.retry, previous} /\ r >= c.retry /\ r >= previous
  <2>1. c.retry \in Nat /\ previous \in Nat
    BY <1>1
  <2> QED BY <2>1, LaterOf
<1>3. r \in 0..Horizon
  BY <1>1, <1>2
<1> HIDE DEF r
<1>4. /\ d \in Cell /\ d.failed = c.failed /\ d.err = c.err /\ d.quota = c.quota
      /\ d.unavailable = c.unavailable /\ d.retry = r
  BY <1>3 DEF Cell
<1>5. CASE c.retry # Zero /\ previous > now
  <2>1. Extended(c, previous) = d
    BY <1>5 DEF Extended, r
  <2> HIDE DEF d
  <2> QED BY <1>2, <1>4, <1>5, <2>1
<1>6. CASE ~(c.retry # Zero /\ previous > now)
  <2>1. Extended(c, previous) = c
    BY <1>6 DEF Extended
  <2> QED BY <1>6, <2>1
<1> QED BY <1>5, <1>6

\* The closing adjustments, in either order the code applies them: the result
\* is sound, a disabled cooling leaves no deadline but an old quota window, and
\* otherwise the cell's own deadlines only move away.
AdjustedAs(d, p, c, off, force) ==
  /\ d \in SoundCells /\ d.failed /\ d.err = p.err
  /\ d.quota.recover = p.quota.recover /\ d.quota.level = p.quota.level
  /\ off => /\ d.retry = Zero
            /\ d.quota.recover # Zero => d.quota = p.quota
  /\ ~off => /\ d.quota = p.quota /\ d.retry >= p.retry
             /\ p.unavailable => d.unavailable
             /\ p.retry # Zero /\ c.retry > now => d.retry >= c.retry
             /\ force => d.unavailable /\ d.retry > now

LEMMA Adjusted ==
  ASSUME now \in 1..MaxTime, NEW c \in SoundCells, NEW p, NEW kind,
         NEW off \in BOOLEAN, NEW force \in BOOLEAN, NEW held, off => ~force,
         PenalisedAs(p, c, kind, off, held)
  PROVE  /\ AdjustedAs(Extended(Forced(Relaxed(p, off), force), c.retry), p, c, off, force)
         /\ AdjustedAs(Relaxed(Forced(Extended(p, c.retry), force), off), p, c, off, force)
<1>1. /\ c \in Cell /\ c.retry \in 0..Horizon /\ p \in Cell /\ p.retry \in 0..Horizon
      /\ p.quota \in Quota
  BY CellType DEF SoundCells, PenalisedAs
<1>2. now \in Nat \ {0} /\ Horizon \in Nat
  BY Durations
<1>3. /\ p.failed
      /\ off => p.retry = Zero
      /\ ~off => Sound(p)
      /\ off /\ p.quota.recover # Zero => p.quota = c.quota
      /\ kind # "transient" => p.unavailable
      /\ kind = "transient" => (p.unavailable <=> p.retry # Zero)
      /\ ~off => (p.retry > now \/ p.retry = Zero)
      /\ SoundQuota(c.quota)
  BY DEF PenalisedAs, SoundCells, Sound
<1>4. ASSUME NEW d \in Cell, d.failed = p.failed, d.err = p.err,
             d.quota.recover = p.quota.recover, d.quota.level = p.quota.level,
             off => /\ d.retry = Zero
                    /\ IF p.quota.recover = Zero THEN ~d.unavailable /\ ~d.quota.exceeded
                       ELSE d.quota = p.quota,
             ~off => /\ d.quota = p.quota /\ d.retry >= p.retry
                     /\ p.unavailable => d.unavailable
                     /\ d.unavailable # p.unavailable => d.retry > now
                     /\ p.retry # Zero /\ c.retry > now => d.retry >= c.retry
                     /\ force => d.unavailable /\ d.retry > now
      PROVE  AdjustedAs(d, p, c, off, force)
  <2>1. d.retry \in 0..Horizon
    BY CellType
  <2>2. Sound(d)
    <3>1. CASE off
      BY <1>3, <1>4, <3>1 DEF Sound, SoundQuota, Zero
    <3>2. CASE ~off
      BY <1>1, <1>2, <1>3, <1>4, <2>1, <3>2 DEF Sound, SoundQuota, Zero
    <3> QED BY <3>1, <3>2
  <2>3. d.quota.recover # Zero /\ off => d.quota = p.quota
    BY <1>4
  <2> QED BY <1>3, <1>4, <2>2, <2>3 DEF AdjustedAs, SoundCells
<1>5. AdjustedAs(Extended(Forced(Relaxed(p, off), force), c.retry), p, c, off, force)
  <2> DEFINE r == Relaxed(p, off)
             g == Forced(r, force)
             d == Extended(g, c.retry)
  <2>1. /\ r \in Cell /\ r.failed = p.failed /\ r.err = p.err /\ r.retry = p.retry
        /\ r.quota.recover = p.quota.recover /\ r.quota.level = p.quota.level
        /\ IF off /\ p.retry = Zero /\ p.quota.recover = Zero
           THEN ~r.unavailable /\ ~r.quota.exceeded ELSE r = p
    BY <1>1, RelaxedFacts
  <2> HIDE DEF r
  <2>2. /\ g \in Cell /\ g.failed = r.failed /\ g.err = r.err /\ g.quota = r.quota
        /\ IF force /\ r.retry = Zero THEN g.unavailable /\ g.retry > now ELSE g = r
    BY <2>1, ForcedFacts
  <2> HIDE DEF g
  <2>3. /\ d \in Cell /\ d.failed = g.failed /\ d.err = g.err /\ d.quota = g.quota
        /\ d.unavailable = g.unavailable
        /\ IF g.retry # Zero /\ c.retry > now
           THEN d.retry >= g.retry /\ d.retry >= c.retry /\ d.retry \in {g.retry, c.retry}
           ELSE d = g
    BY <1>1, <2>2, ExtendedFacts
  <2>4. g.retry \in 0..Horizon /\ d.retry \in 0..Horizon
    BY <2>2, <2>3, CellType
  <2> HIDE DEF d
  <2>5. off => /\ d.retry = Zero
               /\ IF p.quota.recover = Zero THEN ~d.unavailable /\ ~d.quota.exceeded
                  ELSE d.quota = p.quota
    BY <1>3, <2>1, <2>2, <2>3
  <2>6. ~off => /\ d.quota = p.quota /\ d.retry >= p.retry
                /\ p.unavailable => d.unavailable
                /\ d.unavailable # p.unavailable => d.retry > now
                /\ p.retry # Zero /\ c.retry > now => d.retry >= c.retry
                /\ force => d.unavailable /\ d.retry > now
    <3> SUFFICES ASSUME ~off PROVE
                /\ d.quota = p.quota /\ d.retry >= p.retry
                /\ p.unavailable => d.unavailable
                /\ d.unavailable # p.unavailable => d.retry > now
                /\ p.retry # Zero /\ c.retry > now => d.retry >= c.retry
                /\ force => d.unavailable /\ d.retry > now
      OBVIOUS
    <3>1. r = p
      BY <2>1
    <3>2. CASE force /\ p.retry = Zero
      BY <1>1, <1>2, <2>2, <2>3, <2>4, <3>1, <3>2 DEF Zero
    <3>3. CASE ~(force /\ p.retry = Zero)
      <4>1. g = p
        BY <2>2, <3>1, <3>3
      <4>2. force => p.unavailable /\ p.retry > now
        BY <1>3, <3>3
      <4> QED BY <1>1, <1>2, <2>3, <2>4, <4>1, <4>2 DEF Zero
    <3> QED BY <3>2, <3>3
  <2>7. AdjustedAs(d, p, c, off, force)
    BY <1>4, <2>1, <2>2, <2>3, <2>5, <2>6
  <2> QED BY <2>7 DEF d, g, r
<1>6. AdjustedAs(Relaxed(Forced(Extended(p, c.retry), force), off), p, c, off, force)
  <2> DEFINE x == Extended(p, c.retry)
             g == Forced(x, force)
             d == Relaxed(g, off)
  <2>1. /\ x \in Cell /\ x.failed = p.failed /\ x.err = p.err /\ x.quota = p.quota
        /\ x.unavailable = p.unavailable
        /\ IF p.retry # Zero /\ c.retry > now
           THEN x.retry >= p.retry /\ x.retry >= c.retry /\ x.retry \in {p.retry, c.retry}
           ELSE x = p
    BY <1>1, ExtendedFacts
  <2> HIDE DEF x
  <2>2. /\ g \in Cell /\ g.failed = x.failed /\ g.err = x.err /\ g.quota = x.quota
        /\ IF force /\ x.retry = Zero THEN g.unavailable /\ g.retry > now ELSE g = x
    BY <2>1, ForcedFacts
  <2> HIDE DEF g
  <2>3. /\ d \in Cell /\ d.failed = g.failed /\ d.err = g.err /\ d.retry = g.retry
        /\ d.quota.recover = g.quota.recover /\ d.quota.level = g.quota.level
        /\ IF off /\ g.retry = Zero /\ g.quota.recover = Zero
           THEN ~d.unavailable /\ ~d.quota.exceeded ELSE d = g
    BY <2>2, RelaxedFacts
  <2>4. g.retry \in 0..Horizon /\ x.retry \in 0..Horizon
    BY <2>1, <2>2, CellType
  <2> HIDE DEF d
  <2>5. off => /\ d.retry = Zero
               /\ IF p.quota.recover = Zero THEN ~d.unavailable /\ ~d.quota.exceeded
                  ELSE d.quota = p.quota
    BY <1>3, <2>1, <2>2, <2>3
  <2>6. ~off => /\ d.quota = p.quota /\ d.retry >= p.retry
                /\ p.unavailable => d.unavailable
                /\ d.unavailable # p.unavailable => d.retry > now
                /\ p.retry # Zero /\ c.retry > now => d.retry >= c.retry
                /\ force => d.unavailable /\ d.retry > now
    <3> SUFFICES ASSUME ~off PROVE
                /\ d.quota = p.quota /\ d.retry >= p.retry
                /\ p.unavailable => d.unavailable
                /\ d.unavailable # p.unavailable => d.retry > now
                /\ p.retry # Zero /\ c.retry > now => d.retry >= c.retry
                /\ force => d.unavailable /\ d.retry > now
      OBVIOUS
    <3>1. d = g
      BY <2>3
    <3>2. CASE p.retry = Zero
      BY <1>1, <1>2, <2>1, <2>2, <2>4, <3>1, <3>2 DEF Zero
    <3>3. CASE p.retry # Zero
      <4>1. x.retry # Zero /\ g = x /\ x.retry >= p.retry
        BY <1>1, <1>2, <2>1, <2>2, <2>4, <3>3 DEF Zero
      <4>2. p.unavailable /\ p.retry > now
        BY <1>3, <3>3
      <4> QED BY <1>1, <1>2, <2>1, <2>4, <3>1, <4>1, <4>2 DEF Zero
    <3> QED BY <3>2, <3>3
  <2>7. AdjustedAs(d, p, c, off, force)
    BY <1>4, <2>1, <2>2, <2>3, <2>5, <2>6
  <2> QED BY <2>7 DEF d, g, x
<1> QED BY <1>5, <1>6

-----------------------------------------------------------------------------
\* The aggregated availability.

\* A credential whose cells are all sound.
SoundAuths == [cell : SoundCells, states : [Models -> SoundCells \cup {Absent}]]

\* When a sound cell blocks.
Blocks(c, t) == \/ c.quota.recover > t
                \/ c.retry > t /\ (c.unavailable \/ c.quota.exceeded)

LEMMA AbsentIsNoCell == Absent \notin SoundCells
BY AbsentAssumption DEF SoundCells

LEMMA CleanIsSound == CleanCell \in SoundCells /\ CleanQuota \in Quota
<1>1. 0 \in 0..Horizon /\ 0 \in Rungs
  BY Durations DEF Rungs
<1>2. CleanQuota \in Quota
  BY <1>1 DEF CleanQuota, Quota, Zero
<1>3. CleanCell \in Cell
  BY <1>1, <1>2 DEF CleanCell, Cell, Zero, Errors
<1> QED BY <1>2, <1>3 DEF SoundCells, Sound, SoundQuota, CleanCell, CleanQuota, Zero

\* The cells of a sound credential.
LEMMA SoundAuthFacts ==
  ASSUME NEW a \in SoundAuths
  PROVE  /\ a.cell \in SoundCells /\ a.cell \in Cell /\ Sound(a.cell)
         /\ Tracked(a) \subseteq Models
         /\ \A m \in Tracked(a) : a.states[m] \in SoundCells
         /\ \A m \in Models : State(a, m) \in SoundCells
BY AbsentIsNoCell, CleanIsSound DEF SoundAuths, SoundCells, Tracked, State

\* A deadline is dropped when it has passed, which frees nothing later.
LEMMA ExpireFacts ==
  ASSUME now \in 1..MaxTime, NEW c \in SoundCells
  PROVE  /\ Expire(c) \in SoundCells /\ Expire(c).quota = c.quota
         /\ Expire(c).err = c.err /\ Expire(c).failed = c.failed
         /\ Expire(c).unavailable => c.unavailable
         /\ Expire(c).retry = c.retry \/ (Expire(c).retry = Zero /\ c.retry <= now)
         /\ \A t \in Nat : t >= now => (Blocks(Expire(c), t) <=> Blocks(c, t))
<1> DEFINE d == [c EXCEPT !.unavailable = FALSE, !.retry = Zero]
<1>1. /\ c \in Cell /\ c.retry \in 0..Horizon /\ c.quota \in Quota /\ Sound(c)
      /\ now \in Nat /\ Horizon \in Nat /\ Zero \in 0..Horizon
  BY CellType, Durations DEF SoundCells, Zero
<1>2. c.quota.recover \in 0..Horizon
  BY <1>1, QuotaType
<1>3. CASE c.unavailable /\ c.retry # Zero /\ c.retry <= now
  <2>1. /\ d \in Cell /\ d.quota = c.quota /\ d.err = c.err /\ d.failed = c.failed
        /\ ~d.unavailable /\ d.retry = Zero
    BY <1>1 DEF Cell
  <2>2. Expire(c) = d
    BY <1>3 DEF Expire
  <2> HIDE DEF d
  <2>3. d \in SoundCells
    BY <1>1, <2>1 DEF SoundCells, Sound
  <2>4. ASSUME NEW t \in Nat, t >= now PROVE Blocks(d, t) <=> Blocks(c, t)
    <3>1. ~(c.retry > t) /\ ~(d.retry > t)
      BY <1>1, <1>3, <2>1, <2>4 DEF Zero
    <3> QED BY <2>1, <3>1 DEF Blocks
  <2> QED BY <1>3, <2>1, <2>2, <2>3, <2>4
<1>4. CASE ~(c.unavailable /\ c.retry # Zero /\ c.retry <= now)
  <2>1. Expire(c) = c
    BY <1>4 DEF Expire
  <2> QED BY <2>1
<1> QED BY <1>3, <1>4

\* What recomputing the aggregate keeps: the cells of the models, but for
\* deadlines that have passed, and an open credential quota.
AggregatedAs(b, a) ==
  /\ b \in SoundAuths /\ Tracked(b) = Tracked(a)
  /\ \A m \in Tracked(a) : b.states[m] = a.states[m] \/ b.states[m] = Expire(a.states[m])
  /\ b.cell.failed = a.cell.failed /\ b.cell.err = a.cell.err
  /\ IF CredentialQuotaOpen(a, now)
     THEN b.cell.quota = a.cell.quota /\ b.cell.retry = a.cell.retry
     ELSE \A t \in Nat : t >= now => ~CredentialQuotaOpen(b, t)

LEMMA AggregatedFacts ==
  ASSUME now \in 1..MaxTime, NEW a \in SoundAuths
  PROVE  AggregatedAs(updateAggregatedAvailability(a), a)
<1> DEFINE tracked == {a.states[m] : m \in Tracked(a)}
           Live(c) == c.unavailable /\ c.retry > now
           everyModel == \A c \in tracked : Live(c)
           exceeded == {c.quota : c \in {t \in tracked : t.quota.exceeded}}
           stillOpen == a.cell.quota.exceeded /\ a.cell.quota.recover > now
           ended == EarliestOf({q.recover : q \in exceeded})
           quota == IF exceeded # {}
                    THEN [exceeded |-> TRUE, reason |-> "quota",
                          recover |-> MaxOf({a.cell.quota.recover, ended}),
                          level |-> MaxOf({q.level : q \in exceeded})]
                    ELSE IF stillOpen THEN a.cell.quota ELSE CleanQuota
           retry == IF everyModel THEN EarliestOf({c.retry : c \in tracked}) ELSE Zero
           states == [m \in Models |-> ExpireState(a, m)]
           b == updateAggregatedAvailability(a)
<1>1. /\ a.cell \in Cell /\ Sound(a.cell) /\ a.cell.quota \in Quota
      /\ a.cell.quota.recover \in 0..Horizon /\ a.cell.quota.exceeded \in BOOLEAN
      /\ \A c \in tracked : c \in Cell /\ Sound(c)
      /\ now \in Nat \ {0} /\ Horizon \in Nat
  <2>1. a.cell \in Cell /\ Sound(a.cell) /\ \A c \in tracked : c \in Cell /\ Sound(c)
    BY SoundAuthFacts DEF SoundCells
  <2>2. a.cell.quota \in Quota
    BY <2>1, CellType
  <2>3. now \in Nat \ {0} /\ Horizon \in Nat
    BY Durations
  <2>4. a.cell.quota.recover \in 0..Horizon /\ a.cell.quota.exceeded \in BOOLEAN
    BY <2>2, QuotaType
  <2> QED BY <2>1, <2>2, <2>3, <2>4
<1>2. \A q \in exceeded : q \in Quota /\ q.recover \in 1..Horizon /\ q.level \in Rungs
  <2>1. ASSUME NEW c \in tracked, c.quota.exceeded
        PROVE  c.quota \in Quota /\ c.quota.recover \in 1..Horizon /\ c.quota.level \in Rungs
    <3>1. c.quota \in Quota /\ Sound(c)
      BY <1>1, CellType
    <3>2. c.quota.recover \in 0..Horizon /\ c.quota.level \in Rungs
      BY <3>1, QuotaType
    <3>3. c.quota.recover # 0
      BY <2>1, <3>1 DEF Sound, SoundQuota, Zero
    <3> QED BY <1>1, <3>1, <3>2, <3>3
  <2> QED BY <2>1
<1>3. exceeded # {} => ended \in 1..Horizon
  <2>1. {q.recover : q \in exceeded} \in SUBSET (1..Horizon)
    BY <1>2
  <2>2. {q.recover : q \in exceeded} \in SUBSET Nat
    BY <1>1, <2>1
  <2>3. ASSUME NEW q \in exceeded PROVE ended # 0
    <3>1. q.recover \in {r.recover : r \in exceeded} \ {0}
      BY <1>2
    <3> QED BY <2>2, <3>1, Earliest
  <2>4. ended \in {q.recover : q \in exceeded} \cup {0}
    BY <2>2, Earliest
  <2> HIDE DEF ended, exceeded
  <2> QED BY <2>1, <2>3, <2>4
<1>4. MaxOf({q.level : q \in exceeded}) \in Rungs
  <2>1. {q.level : q \in exceeded} \in SUBSET Rungs
    BY <1>2
  <2>2. {q.level : q \in exceeded} \in SUBSET (0..QuotaMax)
    BY <2>1 DEF Rungs
  <2>3. QuotaMax \in Nat /\ 0 \in Rungs
    BY Durations DEF Rungs
  <2> HIDE DEF exceeded
  <2> QED BY <2>1, <2>2, <2>3, Latest
<1> HIDE DEF ended
<1>5. quota \in Quota /\ SoundQuota(quota)
  <2>1. CASE exceeded # {}
    <3>1. MaxOf({a.cell.quota.recover, ended}) \in 1..Horizon
      <4>1. a.cell.quota.recover \in Nat /\ ended \in Nat /\ ended >= 1
        BY <1>1, <1>3, <2>1
      <4>2. /\ MaxOf({a.cell.quota.recover, ended}) \in {a.cell.quota.recover, ended}
            /\ ended <= MaxOf({a.cell.quota.recover, ended})
        BY <4>1, LaterOf
      <4>3. a.cell.quota.recover \in 0..Horizon /\ ended \in 1..Horizon
        BY <1>1, <1>3, <2>1
      <4> QED BY <4>1, <4>2, <4>3
    <3> DEFINE r == MaxOf({a.cell.quota.recover, ended})
               n == MaxOf({q.level : q \in exceeded})
    <3> HIDE DEF r, n
    <3>2. quota = [exceeded |-> TRUE, reason |-> "quota", recover |-> r, level |-> n]
      BY <2>1 DEF r, n
    <3>3. r \in 0..Horizon /\ r # 0 /\ n \in Rungs
      BY <1>1, <1>4, <3>1 DEF r, n
    <3>4. [exceeded |-> TRUE, reason |-> "quota", recover |-> r, level |-> n] \in Quota
      BY <3>3, QuotaOf
    <3> HIDE DEF quota
    <3> QED BY <3>2, <3>3, <3>4 DEF SoundQuota, Zero
  <2>2. CASE exceeded = {}
    BY <1>1, <2>2, CleanIsSound DEF Sound, SoundQuota, CleanQuota, Zero
  <2> QED BY <2>1, <2>2
<1>6. retry \in 0..Horizon /\ (everyModel /\ tracked # {} => retry # Zero)
  <2>1. {c.retry : c \in tracked} \in SUBSET (0..Horizon)
    BY <1>1, CellType
  <2>2. {c.retry : c \in tracked} \in SUBSET Nat
    BY <2>1
  <2>3. ASSUME everyModel, NEW c \in tracked PROVE EarliestOf({d.retry : d \in tracked}) # 0
    <3>1. c.retry # 0
      BY <1>1, <2>1, <2>3
    <3>2. c.retry \in {d.retry : d \in tracked} \ {0}
      BY <3>1
    <3> QED BY <2>2, <3>2, Earliest
  <2>4. EarliestOf({c.retry : c \in tracked}) \in {c.retry : c \in tracked} \cup {0}
    BY <2>2, Earliest
  <2>5. 0 \in 0..Horizon
    BY <1>1
  <2>6. EarliestOf({c.retry : c \in tracked}) \in 0..Horizon
    BY <2>1, <2>4, <2>5, Zenon
  <2>7. CASE everyModel
    BY <2>3, <2>6, <2>7 DEF Zero
  <2>8. CASE ~everyModel
    BY <2>5, <2>8 DEF Zero
  <2> QED BY <2>7, <2>8
<1>7. /\ states \in [Models -> SoundCells \cup {Absent}]
      /\ \A m \in Models : states[m] = Absent <=> a.states[m] = Absent
      /\ \A m \in Tracked(a) : states[m] = Expire(a.states[m])
  <2>1. ASSUME NEW m \in Models, a.states[m] # Absent
        PROVE  ExpireState(a, m) \in SoundCells /\ ExpireState(a, m) = Expire(a.states[m])
               /\ ExpireState(a, m) # Absent
    <3>1. a.states[m] \in SoundCells
      BY <2>1, SoundAuthFacts DEF Tracked
    <3> QED BY <2>1, <3>1, ExpireFacts, AbsentIsNoCell DEF ExpireState
  <2>2. ASSUME NEW m \in Models, a.states[m] = Absent PROVE ExpireState(a, m) = Absent
    BY <2>2 DEF ExpireState
  <2> QED BY <2>1, <2>2 DEF Tracked
<1>8. ASSUME NEW d, d.cell \in SoundCells, d = [cell |-> d.cell, states |-> d.states],
             d.states = a.states \/ d.states = states,
             d.cell.failed = a.cell.failed, d.cell.err = a.cell.err,
             CredentialQuotaOpen(a, now) =>
               d.cell.quota = a.cell.quota /\ d.cell.retry = a.cell.retry,
             ~CredentialQuotaOpen(a, now) =>
               \A t \in Nat : t >= now => ~CredentialQuotaOpen(d, t)
      PROVE  AggregatedAs(d, a)
  <2>1. a.states \in [Models -> SoundCells \cup {Absent}]
    BY DEF SoundAuths
  <2>2. d.states \in [Models -> SoundCells \cup {Absent}]
    BY <1>7, <1>8, <2>1
  <2>3. [cell |-> d.cell, states |-> d.states] \in SoundAuths
    BY <1>8, <2>2 DEF SoundAuths
  <2>4. Tracked(d) = Tracked(a)
    BY <1>7, <1>8 DEF Tracked
  <2>5. \A m \in Tracked(a) : d.states[m] = a.states[m] \/ d.states[m] = Expire(a.states[m])
    BY <1>7, <1>8
  <2> HIDE DEF states
  <2> QED BY <1>8, <2>3, <2>4, <2>5 DEF AggregatedAs
<1>9. CASE a.cell.quota.exceeded /\ CredentialQuotaOpen(a, now)
  <2> DEFINE c == [a.cell EXCEPT !.unavailable = TRUE]
  <2>1. /\ c \in Cell /\ c.quota = a.cell.quota /\ c.retry = a.cell.retry
        /\ c.failed = a.cell.failed /\ c.err = a.cell.err
    BY <1>1 DEF Cell
  <2>2. c.quota.recover # Zero
    BY <1>1, <1>9, <2>1 DEF CredentialQuotaOpen, Zero
  <2>3. c \in SoundCells
    BY <1>1, <2>1, <2>2 DEF SoundCells, Sound
  <2>4. b = [a EXCEPT !.cell = c]
    BY <1>9 DEF updateAggregatedAvailability
  <2> HIDE DEF b, c
  <2>5. b = [cell |-> b.cell, states |-> b.states] /\ b.cell = c /\ b.states = a.states
    BY <2>4 DEF SoundAuths
  <2> HIDE DEF states
  <2>6. AggregatedAs(b, a)
    BY <1>8, <1>9, <2>1, <2>3, <2>5
  <2> QED BY <2>6 DEF b
<1>10. CASE ~(a.cell.quota.exceeded /\ CredentialQuotaOpen(a, now))
  <2>1. ~CredentialQuotaOpen(a, now)
    <3>1. CredentialQuotaOpen(a, now) => a.cell.quota.recover # Zero
      BY <1>1 DEF CredentialQuotaOpen, Zero
    <3> QED BY <1>1, <1>10, <3>1 DEF Sound, SoundQuota
  <2>2. ASSUME NEW u \in BOOLEAN, NEW r \in 0..Horizon, NEW q \in Quota, SoundQuota(q),
               u => r # Zero, NEW ss, ss = a.states \/ ss = states,
               q.reason = "credential_quota" => q = a.cell.quota,
               b = [a EXCEPT !.cell = [a.cell EXCEPT !.unavailable = u, !.retry = r,
                                                     !.quota = q],
                             !.states = ss]
        PROVE  AggregatedAs(b, a)
    <3> DEFINE c == [a.cell EXCEPT !.unavailable = u, !.retry = r, !.quota = q]
    <3>1. /\ c \in Cell /\ c.quota = q /\ c.retry = r /\ c.unavailable = u
          /\ c.failed = a.cell.failed /\ c.err = a.cell.err
      BY <1>1 DEF Cell
    <3>2. c \in SoundCells
      BY <2>2, <3>1 DEF SoundCells, Sound
    <3> HIDE DEF b, c, states
    <3>3. b = [a EXCEPT !.cell = c, !.states = ss]
      BY <2>2 DEF c
    <3>4. b = [cell |-> b.cell, states |-> b.states] /\ b.cell = c /\ b.states = ss
      BY <3>3 DEF SoundAuths
    <3>5. ASSUME NEW t \in Nat, t >= now, CredentialQuotaOpen(b, t) PROVE FALSE
      BY <1>1, <2>1, <2>2, <3>1, <3>4, <3>5 DEF CredentialQuotaOpen
    <3>6. AggregatedAs(b, a)
      BY <1>8, <2>1, <2>2, <3>1, <3>2, <3>4, <3>5
    <3> QED BY <3>6
  <2>3. CASE tracked = {}
    <3>1. b = [a EXCEPT !.cell = [a.cell EXCEPT !.unavailable = FALSE, !.retry = Zero,
                                                !.quota = CleanQuota],
                        !.states = a.states]
      <4>1. b = [a EXCEPT !.cell.unavailable = FALSE, !.cell.retry = Zero,
                          !.cell.quota = CleanQuota]
        BY <1>10, <2>3 DEF updateAggregatedAvailability
      <4> HIDE DEF b
      <4> QED BY <4>1 DEF SoundAuths
    <3>2. /\ Zero \in 0..Horizon /\ CleanQuota \in Quota /\ SoundQuota(CleanQuota)
          /\ CleanQuota.reason # "credential_quota"
      <4>1. Zero \in 0..Horizon
        BY <1>1 DEF Zero
      <4>2. SoundQuota(CleanQuota) /\ CleanQuota.reason # "credential_quota"
        BY DEF Zero, CleanQuota, SoundQuota
      <4> QED BY <4>1, <4>2, CleanIsSound, Zenon
    <3> HIDE DEF b, states
    <3>3. AggregatedAs(b, a)
      BY <2>2, <3>1, <3>2
    <3> QED BY <3>3 DEF b
  <2>4. CASE tracked # {}
    <3>1. b = [a EXCEPT !.cell.unavailable = everyModel, !.cell.retry = retry,
                        !.cell.quota = quota, !.states = states]
      BY <1>10, <2>4 DEF updateAggregatedAvailability, ended
    <3>2. everyModel \in BOOLEAN
      OBVIOUS
    <3>3. quota.reason = "credential_quota" => quota = a.cell.quota
      BY DEF CleanQuota
    <3>4. everyModel => retry # Zero
      BY <1>6, <2>4
    <3>5. retry \in 0..Horizon
      BY <1>6
    <3> HIDE DEF b, states, retry, quota, everyModel
    <3>6. b = [a EXCEPT !.cell = [a.cell EXCEPT !.unavailable = everyModel, !.retry = retry,
                                                !.quota = quota],
                        !.states = states]
      BY <3>1 DEF SoundAuths
    <3>7. AggregatedAs(b, a)
      BY <1>5, <2>2, <3>2, <3>3, <3>4, <3>5, <3>6
    <3> QED BY <3>7 DEF b
  <2> QED BY <2>3, <2>4
<1> QED BY <1>9, <1>10

-----------------------------------------------------------------------------
\* A failure, before the aggregate is recomputed.

\* What a credential quota makes of the state of another model.
ReachedBy(c, other) ==
  LET recover == IF other.quota.exceeded
                 THEN MaxOf({c.quota.recover, other.quota.recover})
                 ELSE c.quota.recover
  IN  [other EXCEPT !.unavailable = TRUE, !.failed = TRUE,
                    !.retry = MaxOf({@, recover}),
                    !.quota = [exceeded |-> TRUE, reason |-> "credential_quota",
                               recover |-> recover, level |-> c.quota.level]]

\* It is blocked at least as long as it was, and by its retry deadline.
LEMMA ReachedFacts ==
  ASSUME now \in 1..MaxTime, NEW c \in Cell, c.quota.recover > now, NEW other \in SoundCells
  PROVE  LET d == ReachedBy(c, other)
         IN  /\ d \in SoundCells /\ d.failed /\ d.err = other.err
             /\ d.unavailable /\ d.quota.exceeded
             /\ d.retry >= other.retry /\ d.retry >= d.quota.recover
             /\ d.quota.recover >= other.quota.recover /\ d.quota.recover > now
             /\ d.quota.level = c.quota.level
             /\ d.quota.reason = "credential_quota"
<1> DEFINE recover == IF other.quota.exceeded
                      THEN MaxOf({c.quota.recover, other.quota.recover})
                      ELSE c.quota.recover
           retry == MaxOf({other.retry, recover})
           q == [exceeded |-> TRUE, reason |-> "credential_quota",
                 recover |-> recover, level |-> c.quota.level]
           d == [other EXCEPT !.unavailable = TRUE, !.failed = TRUE, !.retry = retry,
                              !.quota = q]
<1>1. now \in Nat \ {0} /\ Horizon \in Nat
  BY Durations
<1>2. /\ c.quota \in Quota /\ other \in Cell /\ Sound(other) /\ other.quota \in Quota
      /\ other.retry \in 0..Horizon
  BY CellType DEF SoundCells
<1>3. /\ c.quota.recover \in 0..Horizon /\ other.quota.recover \in 0..Horizon
      /\ c.quota.level \in Rungs
  BY <1>2, QuotaType
<1>4. recover \in 0..Horizon /\ recover > now /\ recover >= other.quota.recover
  <2>1. c.quota.recover \in Nat /\ other.quota.recover \in Nat
    BY <1>3
  <2>2. ~other.quota.exceeded => other.quota.recover = 0
    BY <1>2 DEF Sound, SoundQuota, Zero
  <2>3. /\ MaxOf({c.quota.recover, other.quota.recover})
             \in {c.quota.recover, other.quota.recover}
        /\ c.quota.recover <= MaxOf({c.quota.recover, other.quota.recover})
        /\ other.quota.recover <= MaxOf({c.quota.recover, other.quota.recover})
    BY <2>1, LaterOf
  <2>4. CASE other.quota.exceeded
    <3>1. recover = MaxOf({c.quota.recover, other.quota.recover})
      BY <2>4
    <3> HIDE DEF recover
    <3> QED BY <1>1, <1>3, <2>3, <3>1
  <2>5. CASE ~other.quota.exceeded
    BY <1>1, <1>3, <2>2, <2>5
  <2> QED BY <2>4, <2>5
<1> HIDE DEF recover
<1>5. retry \in 0..Horizon /\ retry >= other.retry /\ retry >= recover
  <2>1. other.retry \in Nat /\ recover \in Nat
    BY <1>2, <1>4
  <2>2. retry \in {other.retry, recover} /\ retry >= other.retry /\ retry >= recover
    BY <2>1, LaterOf
  <2> HIDE DEF retry
  <2> QED BY <1>2, <1>4, <2>2
<1> HIDE DEF retry
<1>6. q \in Quota /\ q.exceeded /\ q.recover = recover /\ q.level = c.quota.level
      /\ q.reason = "credential_quota"
  <2>1. q \in Quota
    BY <1>3, <1>4, QuotaOf
  <2> QED BY <2>1
<1> HIDE DEF q
<1>7. /\ d \in Cell /\ d.failed /\ d.err = other.err /\ d.unavailable
      /\ d.retry = retry /\ d.quota = q
  BY <1>2, <1>5, <1>6 DEF Cell
<1>8. ReachedBy(c, other) = d
  BY DEF ReachedBy, retry, recover, q
<1> HIDE DEF d
<1>9. d \in SoundCells
  <2>1. q.recover # Zero
    BY <1>1, <1>4, <1>6 DEF Zero
  <2> QED BY <1>6, <1>7, <2>1 DEF SoundCells, Sound, SoundQuota
<1> QED BY <1>4, <1>5, <1>6, <1>7, <1>8, <1>9

\* The credential after a failure of the model m, before the aggregate.
Off(f) == coolingOff /\ ~f.force
PenalisedBy(m, f) ==
  Penalised(State(auth, m), f.kind, f.hint, Off(f), State(auth, m).quota.exceeded)
Reported(m, f) ==
  [auth EXCEPT !.states[m] = PenalisedBy(m, f), !.cell.err = ErrorClass(f.kind)]
Spreads(f) == f.credentialScope /\ ~Off(f)
FinalCell(m, f) ==
  Extended(Forced(Relaxed(PenalisedBy(m, f), Off(f)), f.force), State(auth, m).retry)
FailureResult(m, f) ==
  [(IF Spreads(f) THEN Spread(Reported(m, f), m) ELSE Reported(m, f))
     EXCEPT !.states[m] = FinalCell(m, f), !.cell.failed = TRUE]

LEMMA FailureIs ==
  ASSUME NEW m \in Models, NEW f \in Failures
  PROVE  Failure(m, f) <=> Outcome(updateAggregatedAvailability(FailureResult(m, f)))
BY Zenon DEF Failure, FailureResult, FinalCell, Spreads, Reported, PenalisedBy, Off

\* The cells that the failure did not reach are as before; the others are
\* reached by the quota of the failed model.
FailedAs(r, m, f) ==
  /\ r \in SoundAuths /\ Tracked(r) = Tracked(auth) \cup {m}
  /\ r.states[m] = FinalCell(m, f)
  /\ r.cell.failed /\ r.cell.err = ErrorClass(f.kind)
  /\ \A o \in Tracked(auth) \ {m} :
       r.states[o] = IF Spreads(f) THEN ReachedBy(PenalisedBy(m, f), auth.states[o])
                     ELSE auth.states[o]
  /\ IF Spreads(f)
     THEN /\ r.cell.unavailable /\ r.cell.quota.exceeded
          /\ r.cell.quota.reason = "credential_quota"
          /\ r.cell.quota.recover > now /\ r.cell.retry = r.cell.quota.recover
          /\ r.cell.quota.recover >= auth.cell.quota.recover
     ELSE /\ r.cell.unavailable = auth.cell.unavailable /\ r.cell.quota = auth.cell.quota
          /\ r.cell.retry = auth.cell.retry

\* The report itself.
LEMMA ReportFacts ==
  ASSUME now \in 1..MaxTime, auth \in SoundAuths, coolingOff \in BOOLEAN,
         NEW m \in Models, NEW f \in Failures
  PROVE  /\ State(auth, m) \in SoundCells
         /\ Off(f) \in BOOLEAN /\ (Off(f) => ~f.force)
         /\ PenalisedAs(PenalisedBy(m, f), State(auth, m), f.kind, Off(f),
                        State(auth, m).quota.exceeded)
         /\ AdjustedAs(FinalCell(m, f), PenalisedBy(m, f), State(auth, m), Off(f), f.force)
<1>1. State(auth, m) \in SoundCells
  BY SoundAuthFacts
<1>2. Off(f) \in BOOLEAN /\ (Off(f) => ~f.force) /\ f.force \in BOOLEAN
  BY FailureType DEF Off
<1>3. State(auth, m).quota.exceeded \in BOOLEAN
  BY <1>1, CellType, QuotaType DEF SoundCells
<1>4. PenalisedAs(PenalisedBy(m, f), State(auth, m), f.kind, Off(f),
                  State(auth, m).quota.exceeded)
  BY <1>1, <1>2, <1>3, PenalisedFacts DEF PenalisedBy
<1>5. AdjustedAs(FinalCell(m, f), PenalisedBy(m, f), State(auth, m), Off(f), f.force)
  BY <1>1, <1>2, <1>4, Adjusted DEF FinalCell
<1> QED BY <1>1, <1>2, <1>4, <1>5

\* Rewriting one state and the credential's own cell.
LEMMA Rewritten ==
  ASSUME NEW C, NEW S, NEW a \in [cell : C, states : S], NEW m, NEW p, NEW e
  PROVE  /\ [a EXCEPT !.states[m] = p, !.cell.err = e] =
              [cell |-> [a.cell EXCEPT !.err = e], states |-> [a.states EXCEPT ![m] = p]]
         /\ [a EXCEPT !.states[m] = p, !.cell.failed = TRUE] =
              [cell |-> [a.cell EXCEPT !.failed = TRUE], states |-> [a.states EXCEPT ![m] = p]]
<1>1. ASSUME NEW x, NEW y
      PROVE  [a EXCEPT !.states = y, !.cell = x] = [cell |-> x, states |-> y]
  <2> DEFINE z == [a EXCEPT !.states = y, !.cell = x]
  <2>1. z \in [cell : {x}, states : {y}]
    OBVIOUS
  <2> HIDE DEF z
  <2> QED BY <2>1
<1>2. [a EXCEPT !.states[m] = p, !.cell.err = e] =
        [a EXCEPT !.states = [a.states EXCEPT ![m] = p], !.cell = [a.cell EXCEPT !.err = e]]
  OBVIOUS
<1>3. [a EXCEPT !.states[m] = p, !.cell.failed = TRUE] =
        [a EXCEPT !.states = [a.states EXCEPT ![m] = p],
                  !.cell = [a.cell EXCEPT !.failed = TRUE]]
  OBVIOUS
<1> QED BY <1>1, <1>2, <1>3, Zenon

\* The last assignments of the failure handler: the final state of the model and
\* the credential's status.
SameModels(ss, m) ==
  /\ ss \in [Models -> Cell \cup {Absent}]
  /\ \A o \in Models \ {m} : /\ ss[o] \in SoundCells \cup {Absent}
                             /\ ss[o] = Absent <=> auth.states[o] = Absent
FinishedAs(r, c, ss, m, final) ==
  /\ r \in SoundAuths /\ Tracked(r) = Tracked(auth) \cup {m}
  /\ r.states[m] = final
  /\ r.cell.failed /\ r.cell.err = c.err
  /\ \A o \in Models \ {m} : r.states[o] = ss[o]
  /\ r.cell.unavailable = c.unavailable /\ r.cell.quota = c.quota
  /\ r.cell.retry = c.retry

LEMMA Finished ==
  ASSUME auth \in SoundAuths, NEW m \in Models, NEW final \in SoundCells,
         NEW c \in Cell, Sound(c), NEW ss, SameModels(ss, m), NEW r,
         r = [cell |-> [c EXCEPT !.failed = TRUE], states |-> [ss EXCEPT ![m] = final]]
  PROVE  FinishedAs(r, c, ss, m, final)
<1> DEFINE d == [c EXCEPT !.failed = TRUE]
           st == [ss EXCEPT ![m] = final]
<1>1. /\ d \in Cell /\ d.failed /\ d.err = c.err /\ d.unavailable = c.unavailable
      /\ d.quota = c.quota /\ d.retry = c.retry
  BY DEF Cell
<1>2. d \in SoundCells
  BY <1>1 DEF SoundCells, Sound
<1>3. /\ st \in [Models -> SoundCells \cup {Absent}]
      /\ st[m] = final /\ \A o \in Models \ {m} : st[o] = ss[o]
  BY DEF SameModels
<1>4. r = [cell |-> d, states |-> st]
  OBVIOUS
<1> HIDE DEF d, st
<1>5. r \in SoundAuths /\ r.cell = d /\ r.states = st
  <2>1. [cell |-> d, states |-> st] \in SoundAuths
    BY <1>2, <1>3 DEF SoundAuths
  <2>2. [cell |-> d, states |-> st].cell = d /\ [cell |-> d, states |-> st].states = st
    OBVIOUS
  <2> QED BY ONLY <1>4, <2>1, <2>2, Zenon
<1>6. Tracked(r) = Tracked(auth) \cup {m}
  BY <1>3, <1>5, AbsentIsNoCell DEF Tracked, SameModels
<1> QED BY <1>1, <1>3, <1>5, <1>6 DEF FinishedAs

LEMMA FailureResultFacts ==
  ASSUME now \in 1..MaxTime, auth \in SoundAuths, coolingOff \in BOOLEAN,
         NEW m \in Models, NEW f \in Failures
  PROVE  FailedAs(FailureResult(m, f), m, f)
<1> DEFINE p == PenalisedBy(m, f)
           b == Reported(m, f)
           e == ErrorClass(f.kind)
           r == FailureResult(m, f)
           final == FinalCell(m, f)
<1>1. /\ now \in Nat \ {0} /\ Horizon \in Nat /\ e \in Errors
      /\ auth.cell \in Cell /\ Sound(auth.cell)
      /\ auth.states \in [Models -> SoundCells \cup {Absent}]
      /\ auth.cell.quota \in Quota
  <2>1. now \in Nat \ {0} /\ Horizon \in Nat
    BY Durations
  <2>2. e \in Errors
    BY DEF ErrorClass, Errors
  <2>3. auth.cell \in Cell /\ Sound(auth.cell)
        /\ auth.states \in [Models -> SoundCells \cup {Absent}]
    BY SoundAuthFacts DEF SoundAuths
  <2>4. auth.cell.quota \in Quota
    BY <2>3, CellType
  <2> QED BY <2>1, <2>2, <2>3, <2>4
<1>2. PenalisedAs(p, State(auth, m), f.kind, Off(f), State(auth, m).quota.exceeded)
  BY ReportFacts
<1>3. final \in SoundCells
  BY ReportFacts DEF AdjustedAs
<1> HIDE DEF p, final
<1> DEFINE c1 == [auth.cell EXCEPT !.err = e]
<1>4. /\ c1 \in Cell /\ c1.err = e /\ c1.unavailable = auth.cell.unavailable
      /\ c1.quota = auth.cell.quota /\ c1.retry = auth.cell.retry
      /\ c1.failed = auth.cell.failed
  BY <1>1 DEF Cell
<1> HIDE DEF e
<1>5. b = [cell |-> c1, states |-> [auth.states EXCEPT ![m] = p]]
  <2>1. Reported(m, f) = [auth EXCEPT !.states[m] = p, !.cell.err = e]
    BY DEF Reported, p, e
  <2>2. auth \in [cell : SoundCells, states : [Models -> SoundCells \cup {Absent}]]
    BY DEF SoundAuths
  <2> HIDE DEF e
  <2> QED BY <2>1, <2>2, Rewritten, Zenon
<1> HIDE DEF c1, b
<1>6. Tracked(b) = Tracked(auth) \cup {m} /\ b.states[m] = p
      /\ \A o \in Models \ {m} : b.states[o] = auth.states[o]
  <2>1. p # Absent
    BY <1>2, AbsentAssumption DEF PenalisedAs
  <2> QED BY <1>1, <1>5, <2>1 DEF Tracked
<1>7. CASE ~Spreads(f)
  <2>1. r = [b EXCEPT !.states[m] = final, !.cell.failed = TRUE]
    BY <1>7 DEF FailureResult, b, final
  <2>2. r = [cell |-> [c1 EXCEPT !.failed = TRUE], states |-> [b.states EXCEPT ![m] = final]]
    <3>1. b \in [cell : {c1}, states : {b.states}] /\ b.cell = c1
      BY <1>5
    <3> HIDE DEF r
    <3> QED BY <2>1, <3>1, Rewritten, Zenon
  <2>3. b.states \in [Models -> Cell \cup {Absent}]
    BY <1>1, <1>2, <1>5 DEF PenalisedAs, SoundCells
  <2>4. Sound(c1)
    BY <1>1, <1>4 DEF Sound
  <2>5. SameModels(b.states, m)
    BY <1>1, <1>6, <2>3 DEF SameModels
  <2> HIDE DEF r
  <2>6. FinishedAs(r, c1, b.states, m, final)
    BY <1>3, <1>4, <2>2, <2>4, <2>5, Finished, Zenon
  <2>7. \A o \in Tracked(auth) \ {m} : r.states[o] = auth.states[o]
    BY <1>6, <2>6 DEF Tracked, FinishedAs
  <2> QED BY <1>4, <1>7, <2>6, <2>7 DEF FailedAs, FinishedAs, r, final, e
<1>8. CASE Spreads(f)
  <2> DEFINE until == MaxOf({p.quota.recover, b.cell.quota.recover})
             c2 == [b.cell EXCEPT !.unavailable = TRUE, !.retry = until,
                                  !.quota.exceeded = TRUE,
                                  !.quota.reason = "credential_quota",
                                  !.quota.recover = until]
             ss == [o \in Models |-> IF o = m \/ o \notin Tracked(b)
                                     THEN b.states[o] ELSE ReachedBy(p, b.states[o])]
  <2>1. Spread(b, m) = [cell |-> c2, states |-> ss]
    BY <1>6 DEF Spread, ReachedBy
  <2>2. r = [Spread(b, m) EXCEPT !.states[m] = final, !.cell.failed = TRUE]
    BY <1>8 DEF FailureResult, b, final
  <2>3. p \in Cell /\ p.quota \in Quota /\ p.quota.recover > now
    BY <1>2, <1>8, FailureType, CellType DEF PenalisedAs, Spreads
  <2>4. p.quota.recover \in 0..Horizon /\ auth.cell.quota.recover \in 0..Horizon
    BY <1>1, <2>3, QuotaType
  <2>5. until \in 0..Horizon /\ until > now /\ until >= auth.cell.quota.recover
    <3>1. b.cell.quota.recover = auth.cell.quota.recover
      BY <1>4, <1>5
    <3>2. p.quota.recover \in Nat /\ b.cell.quota.recover \in Nat
      BY <2>4, <3>1
    <3>3. /\ until \in {p.quota.recover, b.cell.quota.recover}
          /\ until >= p.quota.recover /\ until >= b.cell.quota.recover
      BY <3>2, LaterOf
    <3> HIDE DEF until
    <3> QED BY <1>1, <2>3, <2>4, <3>1, <3>3
  <2> HIDE DEF until
  <2>6. b.cell = c1
    BY <1>5
  <2>7. /\ c2 \in Cell /\ c2.err = e /\ c2.unavailable /\ c2.retry = until
        /\ c2.quota.exceeded /\ c2.quota.reason = "credential_quota"
        /\ c2.quota.recover = until
    BY <1>4, <2>5, <2>6 DEF Cell, Quota
  <2> HIDE DEF c2
  <2>8. Sound(c2)
    BY <1>1, <2>5, <2>7 DEF Sound, SoundQuota, Zero
  <2>9. ASSUME NEW o \in Models \ {m}
        PROVE  /\ ss[o] \in SoundCells \cup {Absent}
               /\ ss[o] = Absent <=> auth.states[o] = Absent
               /\ o \in Tracked(auth) => ss[o] = ReachedBy(p, auth.states[o])
    <3>1. CASE o \notin Tracked(auth)
      <4>1. auth.states[o] = Absent
        BY <3>1 DEF Tracked
      <4>2. ss[o] = b.states[o]
        BY <1>6, <3>1
      <4> QED BY <1>6, <3>1, <4>1, <4>2
    <3>2. CASE o \in Tracked(auth)
      <4>1. auth.states[o] \in SoundCells /\ auth.states[o] # Absent
        BY <3>2, SoundAuthFacts DEF Tracked
      <4>2. ss[o] = ReachedBy(p, auth.states[o])
        BY <1>6, <3>2
      <4>3. ss[o] \in SoundCells
        BY <2>3, <4>1, <4>2, ReachedFacts
      <4> QED BY <4>1, <4>2, <4>3, AbsentIsNoCell
    <3> QED BY <3>1, <3>2
  <2>10. ss \in [Models -> Cell \cup {Absent}]
    <3>1. ss[m] = p
      BY <1>6
    <3>2. \A o \in Models : ss[o] \in Cell \cup {Absent}
      BY <2>3, <2>9, <3>1 DEF SoundCells
    <3>3. ss = [o \in Models |-> ss[o]]
      OBVIOUS
    <3> HIDE DEF ss
    <3> QED BY <3>2, <3>3
  <2> HIDE DEF ss
  <2>11. r = [cell |-> [c2 EXCEPT !.failed = TRUE], states |-> [ss EXCEPT ![m] = final]]
    <3>1. /\ Spread(b, m) \in [cell : {c2}, states : {ss}]
          /\ Spread(b, m).cell = c2 /\ Spread(b, m).states = ss
      BY <2>1
    <3> HIDE DEF r
    <3> QED BY <2>2, <3>1, Rewritten, Zenon
  <2> HIDE DEF r
  <2>12. SameModels(ss, m)
    BY <2>9, <2>10 DEF SameModels
  <2>13. FinishedAs(r, c2, ss, m, final)
    BY <1>3, <2>7, <2>8, <2>11, <2>12, Finished, Zenon
  <2>14. \A o \in Tracked(auth) \ {m} : r.states[o] = ReachedBy(p, auth.states[o])
    BY <2>9, <2>13 DEF Tracked, FinishedAs
  <2> QED BY <1>8, <2>5, <2>7, <2>13, <2>14 DEF FailedAs, FinishedAs, r, final, e, p
<1> QED BY <1>7, <1>8

-----------------------------------------------------------------------------
\* The records, and what is restored from them.

SoundRecords == {r \in RecordSet : SoundQuota(r.quota)}
SoundFiles == [cell : SoundRecords \cup {Absent},
               states : [Models -> SoundRecords \cup {Absent}]]

LEMMA AbsentIsNoRecord == Absent \notin SoundRecords
BY AbsentAssumption DEF SoundRecords

\* What a credential saves is sound.
LEMMA RecordsFacts ==
  ASSUME NEW a \in SoundAuths
  PROVE  cooldownStateRecords(a) \in SoundFiles
<1>1. ASSUME NEW c \in SoundCells PROVE Record(c) \in SoundRecords \cup {Absent}
  <2>1. c.retry \in 0..Horizon /\ c.quota \in Quota /\ c.err \in Errors /\ SoundQuota(c.quota)
    BY CellType DEF SoundCells, Sound
  <2>2. [retry |-> c.retry, quota |-> c.quota, err |-> c.err] \in SoundRecords
    BY <2>1 DEF SoundRecords, RecordSet
  <2> QED BY <2>2 DEF Record
<1> QED BY <1>1, SoundAuthFacts DEF cooldownStateRecords, SoundFiles

LEMMA NoRecordsSound == NoRecords \in SoundFiles
BY DEF NoRecords, SoundFiles

LEMMA FreshSound == FreshAuth \in SoundAuths /\ Tracked(FreshAuth) = {}
BY CleanIsSound DEF FreshAuth, SoundAuths, Tracked

\* Replacing one state, or the credential's own cell.
LEMMA WithState ==
  ASSUME NEW a \in SoundAuths, NEW m \in Models, NEW x \in SoundCells
  PROVE  /\ [a EXCEPT !.states[m] = x] \in SoundAuths
         /\ [a EXCEPT !.states[m] = x].cell = a.cell
         /\ [a EXCEPT !.states[m] = x].states = [a.states EXCEPT ![m] = x]
         /\ Tracked([a EXCEPT !.states[m] = x]) = Tracked(a) \cup {m}
<1> DEFINE b == [a EXCEPT !.states[m] = x]
<1>1. /\ b \in SoundAuths /\ b.cell = a.cell /\ b.states = [a.states EXCEPT ![m] = x]
  BY DEF SoundAuths
<1>2. a.states \in [Models -> SoundCells \cup {Absent}]
  BY DEF SoundAuths
<1> HIDE DEF b
<1>3. Tracked(b) = Tracked(a) \cup {m}
  BY <1>1, <1>2, AbsentIsNoCell DEF Tracked
<1> QED BY <1>1, <1>3 DEF b

LEMMA WithCell ==
  ASSUME NEW a \in SoundAuths, NEW c \in SoundCells
  PROVE  /\ [a EXCEPT !.cell = c] \in SoundAuths
         /\ [a EXCEPT !.cell = c].cell = c /\ [a EXCEPT !.cell = c].states = a.states
BY DEF SoundAuths

\* A record is complete as it was saved, and a merge of it blocks its model.
LEMMA MergeFacts ==
  ASSUME now \in 1..MaxTime, NEW c \in SoundCells, NEW r \in SoundRecords, r.retry > now,
         NEW existed
  PROVE  /\ Completed(r) = r
         /\ mergeModelState(c, existed, r) \in SoundCells
<1>1. /\ c \in Cell /\ Sound(c) /\ c.quota \in Quota /\ c.retry \in 0..Horizon
      /\ c.err \in Errors
  BY CellType DEF SoundCells
<1>2. /\ r.quota \in Quota /\ r.retry \in 0..Horizon /\ r.err \in Errors
      /\ SoundQuota(r.quota)
  BY DEF SoundRecords, RecordSet
<1>3. /\ c.quota.recover \in 0..Horizon /\ c.quota.level \in Rungs
      /\ c.quota.exceeded \in BOOLEAN
      /\ c.quota.reason \in {"", "quota", "cloudflare", "credential_quota"}
  BY <1>1, QuotaType
<1>4. /\ r.quota.recover \in 0..Horizon /\ r.quota.level \in Rungs
      /\ r.quota.exceeded \in BOOLEAN
      /\ r.quota.reason \in {"", "quota", "cloudflare", "credential_quota"}
  BY <1>2, QuotaType
<1>5. /\ now \in Nat \ {0} /\ Horizon \in Nat
      /\ \A n \in Rungs : n \in Nat
      /\ \A t \in 0..Horizon : t \in Nat
  BY Durations DEF Rungs
<1>6. Completed(r) = r
  BY <1>2 DEF Completed, SoundQuota
<1> DEFINE preferred == IF existed THEN c ELSE [c EXCEPT !.err = r.err, !.quota = r.quota]
           err == IF preferred.err # "none" THEN preferred.err ELSE r.err
           retry == MaxOf({c.retry, r.retry})
           reason == IF preferred.quota.reason # "" THEN preferred.quota.reason
                     ELSE r.quota.reason
           recover == MaxOf({c.quota.recover, r.quota.recover})
           level == MaxOf({c.quota.level, r.quota.level})
           exceeded == c.quota.exceeded \/ r.quota.exceeded
           q == [exceeded |-> exceeded, reason |-> reason, recover |-> recover,
                 level |-> level]
<1>7. /\ preferred.err \in Errors
      /\ preferred.quota.reason \in {"", "quota", "cloudflare", "credential_quota"}
  <2>1. CASE existed
    BY <1>1, <1>3, <2>1
  <2>2. CASE ~existed
    <3>1. preferred.err = r.err /\ preferred.quota = r.quota
      BY <1>1, <2>2 DEF Cell
    <3> QED BY <1>2, <1>4, <3>1
  <2> QED BY <2>1, <2>2
<1>8. err \in Errors /\ reason \in {"", "quota", "cloudflare", "credential_quota"}
  BY <1>2, <1>4, <1>7
<1>9. retry \in {c.retry, r.retry} /\ retry >= c.retry /\ retry >= r.retry
  <2>1. c.retry \in Nat /\ r.retry \in Nat
    BY <1>1, <1>2
  <2> QED BY <2>1, LaterOf
<1>10. recover \in {c.quota.recover, r.quota.recover}
       /\ recover >= c.quota.recover /\ recover >= r.quota.recover
  <2>1. c.quota.recover \in Nat /\ r.quota.recover \in Nat
    BY <1>3, <1>4, <1>5, Zenon
  <2> QED BY <2>1, LaterOf
<1>11. level \in {c.quota.level, r.quota.level}
  <2>1. c.quota.level \in Nat /\ r.quota.level \in Nat
    BY <1>3, <1>4, <1>5
  <2> QED BY <2>1, LaterOf
<1> HIDE DEF preferred, err, retry, reason, recover, level
<1>12. retry \in 0..Horizon /\ recover \in 0..Horizon /\ level \in Rungs
  BY <1>1, <1>2, <1>3, <1>4, <1>9, <1>10, <1>11
<1>13. exceeded \in BOOLEAN
  OBVIOUS
<1>14. exceeded <=> recover # 0
  <2>1. /\ c.quota.exceeded <=> c.quota.recover # 0
        /\ r.quota.exceeded <=> r.quota.recover # 0
    BY <1>1, <1>2 DEF Sound, SoundQuota, Zero
  <2>2. c.quota.recover \in Nat /\ r.quota.recover \in Nat
    BY <1>3, <1>4, <1>5, Zenon
  <2>3. recover # 0 <=> (c.quota.recover # 0 \/ r.quota.recover # 0)
    BY <1>10, <2>2
  <2> QED BY <2>1, <2>3, Zenon
<1> HIDE DEF exceeded
<1>15. q \in Quota
  BY <1>8, <1>12, <1>13, QuotaOf
<1>16. q.exceeded = exceeded /\ q.recover = recover
  OBVIOUS
<1> HIDE DEF q
<1> DEFINE d == [unavailable |-> TRUE, failed |-> TRUE, err |-> err, retry |-> retry,
                 quota |-> q]
<1>17. d \in Cell /\ d.retry = retry /\ d.quota = q
  BY <1>8, <1>12, <1>15 DEF Cell
<1>18. mergeModelState(c, existed, r) = d
  BY DEF mergeModelState, preferred, err, retry, reason, recover, level, exceeded, q
<1>19. retry # 0
  BY <1>2, <1>5, <1>9, <1>12
<1> HIDE DEF d
<1>20. d \in SoundCells
  BY <1>14, <1>16, <1>17, <1>19 DEF SoundCells, Sound, SoundQuota, Zero
<1> QED BY <1>6, <1>18, <1>20

LEMMA RestoreModelFacts ==
  ASSUME now \in 1..MaxTime, NEW a \in SoundAuths, NEW m \in Models,
         NEW r \in SoundRecords \cup {Absent}, Restorable(r)
  PROVE  restoreModel(a, m, Completed(r)) \in SoundAuths
<1>1. r \in SoundRecords /\ r.retry > now
  BY DEF Restorable
<1>2. State(a, m) \in SoundCells
  BY SoundAuthFacts
<1> DEFINE x == mergeModelState(State(a, m), m \in Tracked(a), r)
<1>3. x \in SoundCells /\ Completed(r) = r
  BY <1>1, <1>2, MergeFacts
<1> HIDE DEF x
<1>4. [a EXCEPT !.states[m] = x] \in SoundAuths
  BY <1>3, WithState
<1>5. updateAggregatedAvailability([a EXCEPT !.states[m] = x]) \in SoundAuths
  BY <1>4, AggregatedFacts DEF AggregatedAs
<1> QED BY <1>3, <1>5 DEF restoreModel, x

LEMMA RestoreCredentialFacts ==
  ASSUME now \in 1..MaxTime, NEW a \in SoundAuths,
         NEW r \in SoundRecords \cup {Absent}, Restorable(r)
  PROVE  restoreCredential(a, Completed(r)) \in SoundAuths
<1>1. r \in SoundRecords /\ r.retry > now
  BY DEF Restorable
<1>2. Completed(r) = r
  BY <1>1, CleanIsSound, MergeFacts
<1>3. /\ r.quota \in Quota /\ r.retry \in 0..Horizon /\ r.err \in Errors
      /\ SoundQuota(r.quota)
  BY <1>1 DEF SoundRecords, RecordSet
<1> DEFINE c == [unavailable |-> TRUE, failed |-> TRUE, err |-> r.err,
                 retry |-> r.retry, quota |-> r.quota]
<1>4. c \in Cell
  BY <1>3, CellOf
<1>5. r.retry # Zero
  BY <1>1, <1>3, Durations DEF Zero
<1>6. c \in SoundCells
  BY <1>3, <1>4, <1>5 DEF SoundCells, Sound
<1>7. restoreCredential(a, r) = [a EXCEPT !.cell = c]
  BY DEF restoreCredential
<1> HIDE DEF c
<1> QED BY <1>2, <1>6, <1>7, WithCell

\* A fold over a finite set: the function that defines it exists.
FoldFrom(T) == CHOOSE x \in T : TRUE
FoldsTo(g, S, a, step, k) ==
  \A T \in SUBSET S : Cardinality(T) <= k =>
    g[T] = IF T = {} THEN a ELSE step[<<FoldFrom(T), g[T \ {FoldFrom(T)}]>>]
FoldsAll(g, S, a, step) ==
  \A T \in SUBSET S :
    g[T] = IF T = {} THEN a ELSE step[<<FoldFrom(T), g[T \ {FoldFrom(T)}]>>]

LEMMA FoldExists ==
  ASSUME NEW S, IsFiniteSet(S), NEW G, NEW a \in G, NEW step \in [S \X G -> G]
  PROVE  \E g \in [SUBSET S -> G] : FoldsAll(g, S, a, step)
<1> DEFINE Bad == {k \in Nat : ~\E g \in [SUBSET S -> G] : FoldsTo(g, S, a, step, k)}
<1>1. \A T \in SUBSET S : IsFiniteSet(T) /\ Cardinality(T) \in Nat
                          /\ Cardinality(T) <= Cardinality(S)
  BY FS_Subset, FS_CardinalityType
<1>2. ASSUME NEW T \in SUBSET S, T # {}
      PROVE  /\ FoldFrom(T) \in T /\ FoldFrom(T) \in S
             /\ T \ {FoldFrom(T)} \in SUBSET S
             /\ Cardinality(T) # 0
             /\ Cardinality(T \ {FoldFrom(T)}) = Cardinality(T) - 1
  <2>1. FoldFrom(T) \in T
    BY <1>2 DEF FoldFrom
  <2> QED BY <1>1, <1>2, <2>1, FS_EmptySet, FS_RemoveElement
<1>3. Bad = {}
  <2> SUFFICES ASSUME Bad # {} PROVE FALSE
    OBVIOUS
  <2>1. PICK n \in Bad : \A k \in Bad : n <= k
    <3>1. Bad \in SUBSET Nat
      OBVIOUS
    <3> QED BY <3>1, LeastNumber
  <2>2. n # 0
    <3> SUFFICES ASSUME n = 0 PROVE FALSE
      OBVIOUS
    <3> DEFINE g == [T \in SUBSET S |-> a]
    <3>1. g \in [SUBSET S -> G]
      OBVIOUS
    <3>2. ASSUME NEW T \in SUBSET S, Cardinality(T) <= 0 PROVE T = {}
      BY <1>1, <3>2, FS_EmptySet
    <3>3. FoldsTo(g, S, a, step, 0)
      BY <3>2 DEF FoldsTo
    <3> QED BY <2>1, <3>1, <3>3
  <2>3. n \in Nat /\ n - 1 \in Nat /\ n - 1 \notin Bad
    <3>1. n \in Nat
      OBVIOUS
    <3> HIDE DEF Bad
    <3> QED BY <2>1, <2>2, <3>1
  <2>4. PICK g \in [SUBSET S -> G] : FoldsTo(g, S, a, step, n - 1)
    BY <2>3
  <2> DEFINE h == [T \in SUBSET S |->
                     IF T = {} THEN a ELSE step[<<FoldFrom(T), g[T \ {FoldFrom(T)}]>>]]
  <2>5. h \in [SUBSET S -> G]
    BY <1>2
  <2>6. \A T \in SUBSET S : Cardinality(T) <= n - 1 => h[T] = g[T]
    BY <2>4 DEF FoldsTo
  <2>7. FoldsTo(h, S, a, step, n)
    <3> SUFFICES ASSUME NEW T \in SUBSET S, Cardinality(T) <= n
                 PROVE  h[T] = IF T = {} THEN a
                               ELSE step[<<FoldFrom(T), h[T \ {FoldFrom(T)}]>>]
      BY DEF FoldsTo
    <3>1. CASE T = {}
      BY <3>1
    <3>2. CASE T # {}
      <4>1. /\ T \ {FoldFrom(T)} \in SUBSET S
            /\ Cardinality(T \ {FoldFrom(T)}) <= n - 1
        BY <1>1, <1>2, <2>3, <3>2
      <4>2. h[T \ {FoldFrom(T)}] = g[T \ {FoldFrom(T)}]
        BY <2>6, <4>1
      <4> QED BY <3>2, <4>2
    <3> QED BY <3>1, <3>2
  <2> QED BY <2>1, <2>5, <2>7
<1>4. Cardinality(S) \in Nat
  BY FS_CardinalityType
<1>5. PICK g \in [SUBSET S -> G] : FoldsTo(g, S, a, step, Cardinality(S))
  BY <1>3, <1>4
<1> QED BY <1>1, <1>5 DEF FoldsTo, FoldsAll

\* What holds of the base, and of a set when it holds of the set without the
\* chosen element, holds of every subset.
LEMMA FoldKeeps ==
  ASSUME NEW S, IsFiniteSet(S), NEW G, NEW g, g[{}] \in G,
         \A T \in SUBSET S : T # {} /\ g[T \ {FoldFrom(T)}] \in G => g[T] \in G
  PROVE  \A T \in SUBSET S : g[T] \in G
<1> DEFINE Bad == {k \in Nat : \E T \in SUBSET S : Cardinality(T) = k /\ g[T] \notin G}
<1>1. \A T \in SUBSET S : IsFiniteSet(T) /\ Cardinality(T) \in Nat
  BY FS_Subset, FS_CardinalityType
<1>2. Bad = {}
  <2> SUFFICES ASSUME Bad # {} PROVE FALSE
    OBVIOUS
  <2>1. PICK n \in Bad : \A k \in Bad : n <= k
    <3>1. Bad \in SUBSET Nat
      OBVIOUS
    <3> QED BY <3>1, LeastNumber
  <2>2. PICK T \in SUBSET S : Cardinality(T) = n /\ g[T] \notin G
    BY <2>1
  <2>3. T # {}
    BY <2>2
  <2>4. FoldFrom(T) \in T
    BY <2>3 DEF FoldFrom
  <2>5. T \ {FoldFrom(T)} \in SUBSET S /\ Cardinality(T \ {FoldFrom(T)}) = n - 1
    BY <1>1, <2>2, <2>4, FS_RemoveElement
  <2>6. g[T \ {FoldFrom(T)}] \notin G
    BY <2>2, <2>3
  <2>7. n - 1 \in Bad
    BY <1>1, <2>5, <2>6
  <2> QED BY <2>1, <2>7
<1> QED BY <1>1, <1>2

\* Restoring a file goes through the models one by one, then takes up the
\* credential's own record.
RestoredModel(b, m, r) == IF Restorable(r) THEN restoreModel(b, m, Completed(r)) ELSE b
RestoresBy(g, a, records) ==
  /\ g \in [SUBSET Models -> SoundAuths]
  /\ g[{}] = a
  /\ \A s \in SUBSET Models : s # {} =>
       LET m == FoldFrom(s)
       IN  /\ m \in s
           /\ g[s] = RestoredModel(g[s \ {m}], m, records.states[m])
  /\ RestoreCooldownStates(a, records) =
       IF Restorable(records.cell)
       THEN restoreCredential(g[Models], Completed(records.cell)) ELSE g[Models]

LEMMA RestoreSteps ==
  ASSUME now \in 1..MaxTime, NEW a \in SoundAuths, NEW records \in SoundFiles
  PROVE  \E g : RestoresBy(g, a, records)
<1> DEFINE OfModel(m, b) == IF Restorable(records.states[m])
                            THEN restoreModel(b, m, Completed(records.states[m])) ELSE b
           step == [e \in Models \X SoundAuths |-> OfModel(e[1], e[2])]
           Follows(g) == g = [s \in SUBSET Models |->
                                IF s = {} THEN a
                                ELSE OfModel(FoldFrom(s), g[s \ {FoldFrom(s)}])]
           iter == CHOOSE g : Follows(g)
           withModels == FoldSet(OfModel, a, Models)
<1>1. withModels = iter[Models]
  BY Zenon DEF FoldSet, MapThenFoldSet, FoldFrom
<1>2. ASSUME NEW m \in Models, NEW b \in SoundAuths PROVE OfModel(m, b) \in SoundAuths
  <2>1. records.states[m] \in SoundRecords \cup {Absent}
    BY DEF SoundFiles
  <2>2. CASE Restorable(records.states[m])
    <3>1. restoreModel(b, m, Completed(records.states[m])) \in SoundAuths
      BY <2>1, <2>2, RestoreModelFacts
    <3> QED BY <2>2, <3>1
  <2>3. CASE ~Restorable(records.states[m])
    BY <2>3
  <2> QED BY <2>2, <2>3
<1>3. \A m, b : OfModel(m, b) = RestoredModel(b, m, records.states[m])
  BY DEF RestoredModel
<1> HIDE DEF OfModel
<1>4. step \in [Models \X SoundAuths -> SoundAuths]
  BY <1>2
<1>5. \A m \in Models, b \in SoundAuths : step[<<m, b>>] = OfModel(m, b)
  OBVIOUS
<1>6. \A s \in SUBSET Models : s # {} => /\ FoldFrom(s) \in s /\ FoldFrom(s) \in Models
                                         /\ s \ {FoldFrom(s)} \in SUBSET Models
  BY DEF FoldFrom
<1> HIDE DEF step
<1>7. PICK g \in [SUBSET Models -> SoundAuths] : FoldsAll(g, Models, a, step)
  <2>1. IsFiniteSet(Models)
    BY ModelsAssumption
  <2> QED BY <1>4, <2>1, FoldExists
<1>8. Follows(g)
  <2>1. \A s \in SUBSET Models :
          g[s] = IF s = {} THEN a ELSE OfModel(FoldFrom(s), g[s \ {FoldFrom(s)}])
    BY <1>5, <1>6, <1>7 DEF FoldsAll
  <2> QED BY <2>1
<1>9. Follows(iter)
  <2> HIDE DEF Follows
  <2> QED BY <1>8
<1> HIDE DEF iter
<1>10. /\ iter = [s \in SUBSET Models |-> iter[s]] /\ iter[{}] = a
       /\ \A s \in SUBSET Models : s # {} =>
            iter[s] = OfModel(FoldFrom(s), iter[s \ {FoldFrom(s)}])
  BY <1>9
<1> HIDE DEF Follows
<1>11. \A s \in SUBSET Models : iter[s] \in SoundAuths
  <2>1. \A s \in SUBSET Models : s # {} /\ iter[s \ {FoldFrom(s)}] \in SoundAuths
                                   => iter[s] \in SoundAuths
    <3> SUFFICES ASSUME NEW s \in SUBSET Models, s # {}, iter[s \ {FoldFrom(s)}] \in SoundAuths
                 PROVE  iter[s] \in SoundAuths
      OBVIOUS
    <3>1. OfModel(FoldFrom(s), iter[s \ {FoldFrom(s)}]) \in SoundAuths
      BY <1>2, <1>6
    <3> QED BY <1>10, <3>1
  <2> QED BY <1>10, <2>1, ModelsAssumption, FoldKeeps
<1>12. iter \in [SUBSET Models -> SoundAuths]
  BY <1>10, <1>11
<1> HIDE DEF withModels
<1>13. RestoreCooldownStates(a, records) =
          IF Restorable(records.cell)
          THEN restoreCredential(withModels, Completed(records.cell)) ELSE withModels
  BY Zenon DEF RestoreCooldownStates, withModels, OfModel
<1>14. RestoresBy(iter, a, records)
  BY <1>1, <1>3, <1>6, <1>10, <1>12, <1>13 DEF RestoresBy
<1> QED BY <1>14

\* Restoring a file of sound records leaves the credential sound.
LEMMA RestoreFacts ==
  ASSUME now \in 1..MaxTime, NEW a \in SoundAuths, NEW records \in SoundFiles
  PROVE  RestoreCooldownStates(a, records) \in SoundAuths
<1>1. PICK g : RestoresBy(g, a, records)
  BY RestoreSteps
<1>2. g[Models] \in SoundAuths
  BY <1>1 DEF RestoresBy
<1>3. records.cell \in SoundRecords \cup {Absent}
  BY DEF SoundFiles
<1>4. RestoreCooldownStates(a, records) =
        IF Restorable(records.cell)
        THEN restoreCredential(g[Models], Completed(records.cell)) ELSE g[Models]
  BY <1>1 DEF RestoresBy
<1> QED BY <1>2, <1>3, <1>4, RestoreCredentialFacts

\* Clearing a credential leaves it sound, and every cell free.
LEMMA ClearedFacts ==
  ASSUME now \in 1..MaxTime, NEW a \in SoundAuths
  PROVE  clearCooldownStateForAuth(a) \in SoundAuths
<1> DEFINE Dirty(c) == \/ c.unavailable \/ c.retry # Zero
                       \/ c.quota.exceeded \/ c.quota.recover # Zero
           Cleared(c) == IF Dirty(c) THEN [c EXCEPT !.unavailable = FALSE, !.retry = Zero,
                                                    !.quota = CleanQuota] ELSE c
           states == [m \in Models |-> IF a.states[m] = Absent THEN Absent
                                       ELSE Cleared(a.states[m])]
           b == [cell |-> Cleared(a.cell), states |-> states]
<1>1. ASSUME NEW c \in SoundCells PROVE Cleared(c) \in SoundCells
  <2> DEFINE d == [c EXCEPT !.unavailable = FALSE, !.retry = Zero, !.quota = CleanQuota]
  <2>1. Zero \in 0..Horizon /\ CleanQuota \in Quota /\ c \in Cell
    BY Durations, CleanIsSound DEF Zero, SoundCells
  <2>2. d \in Cell /\ ~d.unavailable /\ d.quota = CleanQuota
    BY <2>1 DEF Cell
  <2>3. SoundQuota(CleanQuota)
    BY DEF SoundQuota, CleanQuota, Zero
  <2>4. d \in SoundCells
    BY <2>2, <2>3 DEF SoundCells, Sound
  <2> QED BY <2>4
<1> HIDE DEF Cleared
<1>2. b \in SoundAuths
  BY <1>1, SoundAuthFacts DEF SoundAuths, Tracked
<1>3. clearCooldownStateForAuth(a) =
         IF Tracked(a) = {} THEN b ELSE updateAggregatedAvailability(b)
  BY DEF clearCooldownStateForAuth, Cleared
<1> QED BY <1>2, <1>3, AggregatedFacts DEF AggregatedAs

-----------------------------------------------------------------------------
\* The inductive invariant: every cell of the credential and every record of
\* the file is sound.

CooldownInv ==
  /\ now \in 1..MaxTime
  /\ auth \in SoundAuths
  /\ coolingOff \in BOOLEAN /\ pending \in BOOLEAN /\ up \in BOOLEAN
  /\ file \in SoundFiles /\ loaded \in SoundFiles
  /\ reload \in {"idle", "clear", "write", "load", "merge"}
  /\ atCrash \in CrashSet \cup {Absent}
  /\ results \in 0..MaxResults /\ reloads \in 0..MaxReloads /\ crashes \in 0..MaxCrashes

LEMMA InvTypes == CooldownInv => TypeOK
<1>1. SoundAuths \subseteq AuthSet
  BY DEF SoundAuths, AuthSet, SoundCells
<1>2. SoundFiles \subseteq RecordFile
  BY DEF SoundFiles, RecordFile, Records, SoundRecords
<1> QED BY <1>1, <1>2 DEF CooldownInv, TypeOK

LEMMA InvInitially == Init => CooldownInv
<1> SUFFICES ASSUME Init PROVE CooldownInv
  OBVIOUS
<1>1. 1 \in 1..MaxTime /\ 0 \in 0..MaxResults /\ 0 \in 0..MaxReloads /\ 0 \in 0..MaxCrashes
  BY BoundAssumption
<1> QED BY <1>1, FreshSound, NoRecordsSound DEF Init, CooldownInv

\* An outcome that leaves a sound credential keeps the invariant.
LEMMA OutcomeKeeps ==
  ASSUME CooldownInv, NEW a \in SoundAuths, Outcome(a)
  PROVE  CooldownInv'
<1>1. results' \in 0..MaxResults
  BY BoundAssumption DEF Outcome, CooldownInv
<1>2. pending' \in BOOLEAN
  BY DEF Outcome, Record2File
<1> QED BY <1>1, <1>2 DEF Outcome, CooldownInv

\* Forgetting the credential's error keeps its cells sound.
LEMMA Forgiven ==
  ASSUME NEW a \in SoundAuths
  PROVE  /\ [a EXCEPT !.cell.err = "none", !.cell.failed = FALSE] \in SoundAuths
         /\ [a EXCEPT !.cell.err = "none", !.cell.failed = FALSE].states = a.states
         /\ [a EXCEPT !.cell.err = "none", !.cell.failed = FALSE].cell.quota = a.cell.quota
         /\ [a EXCEPT !.cell.err = "none", !.cell.failed = FALSE].cell.retry = a.cell.retry
         /\ [a EXCEPT !.cell.err = "none", !.cell.failed = FALSE].cell.unavailable =
              a.cell.unavailable
<1> DEFINE c == [a.cell EXCEPT !.err = "none", !.failed = FALSE]
           b == [a EXCEPT !.cell.err = "none", !.cell.failed = FALSE]
<1>1. a.cell \in Cell /\ Sound(a.cell)
  BY SoundAuthFacts
<1>2. c \in Cell /\ c.quota = a.cell.quota /\ c.retry = a.cell.retry
      /\ c.unavailable = a.cell.unavailable
  BY <1>1 DEF Cell, Errors
<1>3. c \in SoundCells
  BY <1>1, <1>2 DEF SoundCells, Sound
<1>4. b = [a EXCEPT !.cell = c]
  BY DEF SoundAuths
<1> HIDE DEF b, c
<1>5. b \in SoundAuths /\ b.cell = c /\ b.states = a.states
  BY <1>3, <1>4, WithCell
<1> QED BY <1>2, <1>5 DEF b

\* What a success leaves.
SuccessResult(m) ==
  LET b == updateAggregatedAvailability([auth EXCEPT !.states[m] = CleanCell])
  IN  IF CredentialQuotaOpen(auth, now) THEN auth
      ELSE IF hasModelError(b) THEN b
      ELSE [b EXCEPT !.cell.err = "none", !.cell.failed = FALSE]

LEMMA SuccessFacts ==
  ASSUME CooldownInv, NEW m \in Models
  PROVE  /\ SuccessResult(m) \in SoundAuths
         /\ Success(m) <=> Outcome(SuccessResult(m))
<1> DEFINE a == [auth EXCEPT !.states[m] = CleanCell]
           b == updateAggregatedAvailability(a)
<1>1. a \in SoundAuths
  BY CleanIsSound, WithState DEF CooldownInv
<1> HIDE DEF a
<1>2. b \in SoundAuths
  BY <1>1, AggregatedFacts DEF AggregatedAs, CooldownInv
<1> HIDE DEF b
<1>3. SuccessResult(m) \in {auth, b, [b EXCEPT !.cell.err = "none", !.cell.failed = FALSE]}
  BY DEF SuccessResult, a, b
<1>4. SuccessResult(m) \in SoundAuths
  BY <1>2, <1>3, Forgiven DEF CooldownInv
<1>5. Success(m) <=> Outcome(SuccessResult(m))
  BY Zenon DEF Success, SuccessResult
<1> QED BY <1>4, <1>5

\* What a failure without a model leaves.
CellFailure(f) ==
  Relaxed(Forced(Extended(Penalised(auth.cell, f.kind, f.hint, Off(f), TRUE),
                          auth.cell.retry), f.force), Off(f))

LEMMA CellFailureFacts ==
  ASSUME CooldownInv, NEW f \in Failures
  PROVE  /\ [auth EXCEPT !.cell = CellFailure(f)] \in SoundAuths
         /\ CellFailure(f) \in SoundCells /\ CellFailure(f).failed
         /\ FailureWithoutModel(f) <=>
              ModelLess /\ Outcome([auth EXCEPT !.cell = CellFailure(f)])
<1>1. now \in 1..MaxTime /\ auth \in SoundAuths /\ auth.cell \in SoundCells
  BY SoundAuthFacts DEF CooldownInv
<1>2. Off(f) \in BOOLEAN /\ (Off(f) => ~f.force) /\ f.force \in BOOLEAN
  BY FailureType DEF Off, CooldownInv
<1> DEFINE p == Penalised(auth.cell, f.kind, f.hint, Off(f), TRUE)
<1>3. PenalisedAs(p, auth.cell, f.kind, Off(f), TRUE)
  BY <1>1, <1>2, PenalisedFacts
<1> HIDE DEF p
<1>4. AdjustedAs(Relaxed(Forced(Extended(p, auth.cell.retry), f.force), Off(f)), p, auth.cell,
                 Off(f), f.force)
  BY <1>1, <1>2, <1>3, Adjusted
<1>5. CellFailure(f) \in SoundCells /\ CellFailure(f).failed
  BY <1>4 DEF CellFailure, p, AdjustedAs
<1>6. FailureWithoutModel(f) <=> ModelLess /\ Outcome([auth EXCEPT !.cell = CellFailure(f)])
  BY Zenon DEF FailureWithoutModel, CellFailure, Off
<1> QED BY <1>1, <1>5, <1>6, WithCell

\* What a reset of the quota leaves.
LEMMA ResetFacts ==
  ASSUME CooldownInv, ResetQuota
  PROVE  \E a \in SoundAuths : Outcome(a)
<1> DEFINE states == [m \in Models |-> IF auth.states[m] = Absent THEN Absent ELSE CleanCell]
           reset == [auth EXCEPT !.states = states]
           b == clearCooldownStateForAuth(reset)
           c == IF Tracked(b) = {} THEN b ELSE updateAggregatedAvailability(b)
           a == IF hasModelError(c) THEN c
                ELSE [c EXCEPT !.cell.err = "none", !.cell.failed = FALSE]
<1>1. now \in 1..MaxTime /\ auth \in SoundAuths
  BY DEF CooldownInv
<1>2. reset \in SoundAuths
  BY <1>1, CleanIsSound DEF SoundAuths
<1> HIDE DEF reset
<1>3. b \in SoundAuths
  BY <1>1, <1>2, ClearedFacts
<1> HIDE DEF b
<1>4. c \in SoundAuths
  BY <1>1, <1>3, AggregatedFacts DEF AggregatedAs
<1> HIDE DEF c
<1>5. a \in SoundAuths
  BY <1>4, Forgiven
<1>6. Outcome(a)
  BY Zenon DEF ResetQuota, reset, b, c
<1> HIDE DEF a
<1> QED BY <1>5, <1>6

\* What a crash notes.
LEMMA CrashNote ==
  ASSUME CooldownInv, Crash
  PROVE  atCrash' \in CrashSet
<1>1. \A m \in Models : BlockedTimes(m) \in SUBSET (1..Horizon)
  BY Durations DEF CooldownInv, BlockedTimes
<1>2. [m \in Models |-> BlockedTimes(m)] \in [Models -> SUBSET (1..Horizon)]
  BY <1>1
<1> DEFINE blocked == [m \in Models |-> BlockedTimes(m)]
           unauthorized == Refused(auth)
           saved == /\ ~coolingOff /\ file = cooldownStateRecords(auth)
                    /\ \A m \in Tracked(auth) : WindowInside(auth.states[m])
                    /\ WindowInside(auth.cell)
<1>3. unauthorized \in BOOLEAN /\ saved \in BOOLEAN
  BY DEF Refused
<1>4. atCrash' = [blocked |-> blocked, unauthorized |-> unauthorized, saved |-> saved]
  BY DEF Crash
<1> HIDE DEF blocked, unauthorized, saved
<1>5. blocked \in [Models -> SUBSET (1..Horizon)]
  BY <1>2 DEF blocked
<1> QED BY <1>3, <1>4, <1>5 DEF CrashSet

LEMMA InvPreserved == CooldownInv /\ [Next]_vars => CooldownInv'
<1> SUFFICES ASSUME CooldownInv, [Next]_vars PROVE CooldownInv'
  OBVIOUS
<1>1. now \in 1..MaxTime /\ auth \in SoundAuths /\ coolingOff \in BOOLEAN
  BY DEF CooldownInv
<1>2. ASSUME NEW m \in Models, Success(m) PROVE CooldownInv'
  BY <1>2, SuccessFacts, OutcomeKeeps
<1>3. ASSUME NEW m \in Models, NEW f \in Failures, Failure(m, f) PROVE CooldownInv'
  <2>1. FailureResult(m, f) \in SoundAuths
    BY <1>1, FailureResultFacts DEF FailedAs
  <2>2. updateAggregatedAvailability(FailureResult(m, f)) \in SoundAuths
    BY <1>1, <2>1, AggregatedFacts DEF AggregatedAs
  <2>3. Outcome(updateAggregatedAvailability(FailureResult(m, f)))
    BY <1>3, FailureIs
  <2> QED BY <2>2, <2>3, OutcomeKeeps
<1>4. CASE SuccessWithoutModel
  <2>1. [auth EXCEPT !.cell = CleanCell] \in SoundAuths
    BY <1>1, CleanIsSound, WithCell
  <2>2. \E a \in SoundAuths : Outcome(a)
    BY <1>1, <1>4, <2>1 DEF SuccessWithoutModel
  <2> QED BY <2>2, OutcomeKeeps
<1>5. ASSUME NEW f \in Failures, FailureWithoutModel(f) PROVE CooldownInv'
  BY <1>5, CellFailureFacts, OutcomeKeeps
<1>6. CASE ResetQuota
  BY <1>6, ResetFacts, OutcomeKeeps
<1>7. CASE persistCooldownStates
  <2>1. file' \in SoundFiles
    BY <1>1, <1>7, RecordsFacts DEF persistCooldownStates, CooldownInv
  <2> QED BY <1>7, <2>1 DEF persistCooldownStates, CooldownInv
<1>8. ASSUME NEW off \in BOOLEAN, StoreConfig(off) PROVE CooldownInv'
  <2>1. reloads' \in 0..MaxReloads
    BY <1>8, BoundAssumption DEF StoreConfig, CooldownInv
  <2> QED BY <1>8, <2>1 DEF StoreConfig, CooldownInv
<1>9. CASE clearDisabledCooldownStates
  <2>1. auth' \in SoundAuths
    BY <1>1, <1>9, ClearedFacts DEF clearDisabledCooldownStates
  <2> QED BY <1>9, <2>1 DEF clearDisabledCooldownStates, CooldownInv
<1>10. CASE ApplyConfigWithCooldownStateStore
  <2>1. file' \in SoundFiles /\ reload' \in {"load", "idle"}
    BY <1>1, <1>10, RecordsFacts DEF ApplyConfigWithCooldownStateStore, CooldownInv
  <2> QED BY <1>10, <2>1 DEF ApplyConfigWithCooldownStateStore, CooldownInv
<1>11. CASE LoadRecords
  BY <1>11 DEF LoadRecords, CooldownInv
<1>12. CASE MergeRecords
  <2>1. auth' \in SoundAuths
    BY <1>1, <1>12, RestoreFacts DEF MergeRecords, CooldownInv
  <2> QED BY <1>12, <2>1, NoRecordsSound DEF MergeRecords, CooldownInv
<1>13. CASE Crash
  <2>1. crashes' \in 0..MaxCrashes
    BY <1>13, BoundAssumption DEF Crash, CooldownInv
  <2>2. atCrash' \in CrashSet
    BY <1>13, CrashNote
  <2> QED BY <1>13, <2>1, <2>2, FreshSound, NoRecordsSound DEF Crash, CooldownInv
<1>14. CASE Restart
  <2>1. auth' \in SoundAuths
    BY <1>1, <1>14, FreshSound, RestoreFacts DEF Restart, CooldownInv
  <2>2. pending' \in BOOLEAN
    BY <1>14 DEF Restart
  <2> QED BY <1>14, <2>1, <2>2 DEF Restart, CooldownInv
<1>15. CASE Tick
  <2>1. now' \in 1..MaxTime
    BY <1>1, <1>15, BoundAssumption DEF Tick
  <2> QED BY <1>15, <2>1 DEF Tick, CooldownInv
<1>16. CASE UNCHANGED vars
  BY <1>16 DEF vars, CooldownInv
<1> QED BY <1>2, <1>3, <1>4, <1>5, <1>6, <1>7, <1>8, <1>9, <1>10, <1>11, <1>12, <1>13,
           <1>14, <1>15, <1>16 DEF Next

LEMMA InvHolds == Spec => []CooldownInv
BY InvInitially, InvPreserved, PTL DEF Spec

\* The values stay in their types for every outcome the credential meets; no
\* deadline lies beyond the horizon, and the backoff level never climbs past
\* the last rung of the ladder (nextQuotaCooldown shifts by it).
THEOREM TypeCorrect == Spec => []TypeOK
BY InvHolds, InvTypes, PTL

-----------------------------------------------------------------------------
\* What the selector reads.

\* A sound cell is blocked while one of its deadlines is ahead.
LEMMA BlockWhen ==
  ASSUME NEW c \in SoundCells, NEW t \in Nat
  PROVE  availabilityBlock(c, c.quota.exceeded, t) # Zero <=> Blocks(c, t)
<1> DEFINE deadlines == {c.retry, c.quota.recover} \ {Zero}
           ahead == {d \in deadlines : d > t}
<1>1. /\ c \in Cell /\ Sound(c) /\ c.retry \in 0..Horizon /\ c.quota \in Quota
      /\ Horizon \in Nat /\ Forever # Zero
  BY CellType, Durations DEF SoundCells, Forever, Zero
<1>2. c.quota.recover \in 0..Horizon /\ c.quota.exceeded \in BOOLEAN
  BY <1>1, QuotaType
<1>3. (c.quota.recover > t) => c.quota.exceeded
  <2>1. c.quota.recover > t => c.quota.recover # Zero
    BY <1>2 DEF Zero
  <2> QED BY <1>1, <2>1 DEF Sound, SoundQuota
<1>4. c.unavailable \/ c.quota.exceeded => deadlines # {}
  BY <1>1 DEF Sound, SoundQuota
<1>5. MaxOf(ahead) # Zero <=> (c.retry > t \/ c.quota.recover > t)
  <2>1. deadlines \in SUBSET (0..Horizon)
    BY <1>1, <1>2
  <2>2. ahead \in SUBSET (0..Horizon) /\ ahead \in SUBSET deadlines
    BY <2>1
  <2>3. MaxOf(ahead) \in ahead \cup {0} /\ \A d \in ahead : d <= MaxOf(ahead)
    BY <1>1, <2>2, Latest
  <2>4. c.retry > t => c.retry \in ahead
    BY <1>1 DEF Zero
  <2>5. c.quota.recover > t => c.quota.recover \in ahead
    BY <1>2 DEF Zero
  <2>6. \A d \in ahead : d > t /\ (d = c.retry \/ d = c.quota.recover) /\ d \in Nat
    BY <2>2, <1>1
  <2> HIDE DEF ahead, deadlines
  <2>7. \A d \in ahead : MaxOf(ahead) # 0
    <3> SUFFICES ASSUME NEW d \in ahead, MaxOf(ahead) = 0 PROVE FALSE
      OBVIOUS
    <3>1. d <= 0 /\ d > t /\ d \in Nat
      BY <2>3, <2>6
    <3> QED BY <3>1
  <2>8. ASSUME MaxOf(ahead) # Zero PROVE c.retry > t \/ c.quota.recover > t
    BY <2>3, <2>6, <2>8 DEF Zero
  <2> QED BY <2>4, <2>5, <2>7, <2>8 DEF Zero
<1>6. availabilityBlock(c, c.quota.exceeded, t) =
         IF ~c.unavailable /\ ~c.quota.exceeded THEN Zero
         ELSE IF deadlines = {} THEN Forever ELSE MaxOf(ahead)
  BY Zenon DEF availabilityBlock
<1> HIDE DEF deadlines, ahead
<1>7. CASE ~c.unavailable /\ ~c.quota.exceeded
  BY <1>3, <1>6, <1>7 DEF Blocks
<1>8. CASE c.unavailable \/ c.quota.exceeded
  <2>1. availabilityBlock(c, c.quota.exceeded, t) = MaxOf(ahead)
    BY <1>4, <1>6, <1>8
  <2> QED BY <1>5, <1>8, <2>1 DEF Blocks
<1> QED BY <1>7, <1>8

\* A model is blocked by an open credential quota, by its own state, or, when
\* no model has a state, by the credential's own cell.
Held(a, m, t) == \/ CredentialQuotaOpen(a, t)
                 \/ Tracked(a) = {} /\ Blocks(a.cell, t)
                 \/ m \in Tracked(a) /\ Blocks(a.states[m], t)

LEMMA BlockedWith ==
  ASSUME NEW a \in SoundAuths, NEW token \in Tokens, NEW m \in Models, NEW t \in Nat
  PROVE  isAuthBlockedForModel(a, token, m, t) # Zero <=>
           \/ hasUnauthorizedAuthFailure(a, token) \/ token.expires <= t
           \/ Held(a, m, t)
<1>1. Forever # Zero
  BY Durations DEF Forever, Zero
<1>2. a.cell \in SoundCells /\ Sound(a.cell) /\ a.cell.quota.recover \in Nat
  <2>1. a.cell \in SoundCells
    BY SoundAuthFacts
  <2>2. a.cell \in Cell /\ Sound(a.cell)
    BY <2>1 DEF SoundCells
  <2>3. a.cell.quota \in Quota
    BY <2>2, CellType
  <2>4. a.cell.quota.recover \in 0..Horizon
    BY <2>3, QuotaType
  <2> QED BY <2>1, <2>2, <2>4
<1>3. CredentialQuotaOpen(a, t) => a.cell.quota.exceeded /\ a.cell.quota.recover # Zero
  BY <1>2 DEF CredentialQuotaOpen, Sound, SoundQuota, Zero
<1> DEFINE good == ~hasUnauthorizedAuthFailure(a, token) /\ ~(token.expires <= t)
<1>4. CASE ~good
  BY <1>1, <1>4 DEF isAuthBlockedForModel
<1>5. CASE good /\ CredentialQuotaOpen(a, t)
  BY <1>3, <1>5 DEF isAuthBlockedForModel, Held
<1>6. CASE good /\ ~CredentialQuotaOpen(a, t) /\ Tracked(a) = {}
  BY <1>2, <1>6, BlockWhen DEF isAuthBlockedForModel, Held
<1>7. CASE good /\ ~CredentialQuotaOpen(a, t) /\ Tracked(a) # {}
  <2>1. CASE m \in Tracked(a)
    <3>1. a.states[m] \in SoundCells
      BY <2>1, SoundAuthFacts
    <3> QED BY <1>7, <2>1, <3>1, BlockWhen DEF isAuthBlockedForModel, Held
  <2>2. CASE m \notin Tracked(a)
    BY <1>7, <2>2 DEF isAuthBlockedForModel, Held
  <2> QED BY <2>1, <2>2
<1> QED BY <1>4, <1>5, <1>6, <1>7

\* With a token that does not run out.
LEMMA BlockedWhen ==
  ASSUME NEW a \in SoundAuths, NEW m \in Models, NEW t \in Nat, t <= Horizon
  PROVE  isAuthBlockedForModel(a, LastingToken, m, t) # Zero <=>
           Refused(a) \/ Held(a, m, t)
<1>1. Horizon \in Nat /\ LastingToken \in Tokens /\ LastingToken.expires = Horizon + 1
  BY Durations DEF LastingToken, Tokens, Forever
<1>2. ~(LastingToken.expires <= t) /\ ~LastingToken.refreshLater
  BY <1>1 DEF LastingToken
<1> QED BY <1>1, <1>2, BlockedWith DEF hasUnauthorizedAuthFailure

\* Every deadline is within the horizon.
LEMMA BlocksByHorizon ==
  ASSUME NEW c \in SoundCells
  PROVE  ~Blocks(c, Horizon) /\ ~(c.quota.recover > Horizon)
<1>1. c.retry \in 0..Horizon /\ c.quota \in Quota /\ Horizon \in Nat
  BY CellType, Durations DEF SoundCells
<1>2. c.quota.recover \in 0..Horizon
  BY <1>1, QuotaType
<1> QED BY <1>1, <1>2 DEF Blocks

\* Whatever token the credential holds, a model is blocked without a time at
\* which it comes back only if the token has run out, or if the credential was
\* refused as unauthorized and no refresh is set for later.
THEOREM BlocksEnd == Spec => []NoWedge
<1>1. CooldownInv => NoWedge
  <2> SUFFICES ASSUME CooldownInv, NEW m \in Models, NEW token \in Tokens,
                      isAuthBlockedForModel(auth, token, m, Horizon) # Zero,
                      ~hasUnauthorizedAuthFailure(auth, token), ~(token.expires <= Horizon)
               PROVE  FALSE
    BY DEF NoWedge
  <2>1. auth \in SoundAuths /\ Horizon \in Nat
    BY Durations DEF CooldownInv
  <2>2. Held(auth, m, Horizon)
    BY <2>1, BlockedWith
  <2>3. auth.cell \in SoundCells /\ \A o \in Tracked(auth) : auth.states[o] \in SoundCells
    BY <2>1, SoundAuthFacts
  <2> QED BY <2>2, <2>3, BlocksByHorizon DEF Held, CredentialQuotaOpen
<1> QED BY <1>1, InvHolds, PTL

-----------------------------------------------------------------------------
\* What a failure changes.

\* A failure of a model, and what the selector reads of the credential after it.
LEMMA AfterFailure ==
  ASSUME CooldownInv, NEW m \in Models, NEW f \in Failures, Failure(m, f),
         NEW o \in Models, NEW t \in now..Horizon
  PROVE  LET r == FailureResult(m, f)
         IN  /\ now' = now /\ auth' \in SoundAuths /\ t \in Nat
             /\ FailedAs(r, m, f) /\ AggregatedAs(auth', r)
             /\ auth'.cell.err = ErrorClass(f.kind)
             /\ Held(auth', o, t) <=> \/ CredentialQuotaOpen(r, t)
                                      \/ o \in Tracked(r) /\ Blocks(r.states[o], t)
<1> DEFINE r == FailureResult(m, f)
           b == updateAggregatedAvailability(r)
<1>1. /\ now \in 1..MaxTime /\ auth \in SoundAuths /\ coolingOff \in BOOLEAN
      /\ Horizon \in Nat /\ now \in Nat /\ t \in Nat /\ t >= now
  BY Durations DEF CooldownInv
<1>2. Outcome(b)
  BY FailureIs
<1>3. FailedAs(r, m, f)
  BY <1>1, FailureResultFacts
<1> HIDE DEF r
<1>4. r \in SoundAuths /\ m \in Tracked(r) /\ r.cell.err = ErrorClass(f.kind)
  BY <1>3 DEF FailedAs
<1>5. AggregatedAs(b, r)
  BY <1>1, <1>4, AggregatedFacts
<1> HIDE DEF b
<1>6. auth' = b /\ now' = now
  BY <1>2 DEF Outcome
<1>7. /\ b \in SoundAuths /\ Tracked(b) = Tracked(r) /\ b.cell.err = ErrorClass(f.kind)
      /\ \A i \in Tracked(r) : b.states[i] = r.states[i] \/ b.states[i] = Expire(r.states[i])
      /\ IF CredentialQuotaOpen(r, now)
         THEN b.cell.quota = r.cell.quota
         ELSE \A u \in Nat : u >= now => ~CredentialQuotaOpen(b, u)
  BY <1>4, <1>5 DEF AggregatedAs
<1>8. r.cell.quota.recover \in Nat
  <2>1. r.cell.quota \in Quota
    BY <1>4, SoundAuthFacts, CellType
  <2>2. r.cell.quota.recover \in 0..Horizon
    BY <2>1, QuotaType
  <2> QED BY <1>1, <2>2
<1>9. CredentialQuotaOpen(b, t) <=> CredentialQuotaOpen(r, t)
  <2>1. CredentialQuotaOpen(r, t) => CredentialQuotaOpen(r, now)
    BY <1>1, <1>8 DEF CredentialQuotaOpen
  <2>2. CASE CredentialQuotaOpen(r, now)
    BY <1>7, <2>2 DEF CredentialQuotaOpen
  <2>3. CASE ~CredentialQuotaOpen(r, now)
    BY <1>1, <1>7, <2>1, <2>3
  <2> QED BY <2>2, <2>3
<1>10. ASSUME o \in Tracked(r) PROVE Blocks(b.states[o], t) <=> Blocks(r.states[o], t)
  <2>1. r.states[o] \in SoundCells
    BY <1>4, <1>10, SoundAuthFacts
  <2> QED BY <1>1, <1>7, <1>10, <2>1, ExpireFacts
<1>11. Held(b, o, t) <=> \/ CredentialQuotaOpen(r, t)
                         \/ o \in Tracked(r) /\ Blocks(r.states[o], t)
  <2>1. Tracked(b) # {}
    BY <1>4, <1>7
  <2> QED BY <1>7, <1>9, <1>10, <2>1, Zenon DEF Held
<1> QED BY <1>1, <1>3, <1>5, <1>6, <1>7, <1>11 DEF r

\* A failure that spreads no quota and is not an unauthorized one blocks no
\* model but its own.
LEMMA OthersAfterFailure ==
  ASSUME CooldownInv, NEW m \in Models, NEW f \in Failures, Failure(m, f), ~Spreads(f),
         f.kind # "unauthorized", NEW o \in Models, NEW t \in now..Horizon,
         isAuthBlockedForModel(auth', LastingToken, o, t) # Zero,
         o # m \/ ~Blocks(FinalCell(m, f), t)
  PROVE  isAuthBlockedForModel(auth, LastingToken, o, t) # Zero
<1> DEFINE r == FailureResult(m, f)
<1>1. /\ auth' \in SoundAuths /\ t \in Nat /\ FailedAs(r, m, f)
      /\ auth'.cell.err = ErrorClass(f.kind)
      /\ Held(auth', o, t) <=> \/ CredentialQuotaOpen(r, t)
                               \/ o \in Tracked(r) /\ Blocks(r.states[o], t)
  BY AfterFailure
<1> HIDE DEF r
<1>2. ~Refused(auth')
  BY <1>1 DEF Refused, ErrorClass
<1>3. CredentialQuotaOpen(r, t) \/ (o \in Tracked(r) /\ Blocks(r.states[o], t))
  BY <1>1, <1>2, BlockedWhen
<1>4. /\ r.cell.quota = auth.cell.quota /\ Tracked(r) = Tracked(auth) \cup {m}
      /\ r.states[m] = FinalCell(m, f)
      /\ \A i \in Tracked(auth) \ {m} : r.states[i] = auth.states[i]
  BY <1>1 DEF FailedAs
<1>5. Held(auth, o, t)
  BY <1>3, <1>4 DEF Held, CredentialQuotaOpen
<1> QED BY <1>1, <1>5, BlockedWhen DEF CooldownInv

\* A failure that is neither credential-scoped nor unauthorized blocks its own
\* model only, although it rewrites the credential's aggregated fields.
THEOREM FailuresAreIsolated == Spec => FailureIsolated
<1>1. CooldownInv =>
        [results' > results =>
           \A o \in Models : ~(BlockedTimes(o)' \subseteq BlockedTimes(o)) =>
             ~\E m \in Models \ {o}, f \in Failures :
                ~f.credentialScope /\ f.kind # "unauthorized" /\ Failure(m, f)]_vars
  <2> SUFFICES ASSUME CooldownInv, NEW o \in Models, NEW m \in Models \ {o},
                      NEW f \in Failures, ~f.credentialScope, f.kind # "unauthorized",
                      Failure(m, f)
               PROVE  BlockedTimes(o)' \subseteq BlockedTimes(o)
    OBVIOUS
  <2> SUFFICES ASSUME NEW t \in BlockedTimes(o)' PROVE t \in BlockedTimes(o)
    OBVIOUS
  <2>1. now' = now
    BY DEF Failure, Outcome
  <2>2. t \in now..Horizon /\ isAuthBlockedForModel(auth', LastingToken, o, t) # Zero
    BY <2>1 DEF BlockedTimes
  <2>3. ~Spreads(f)
    BY DEF Spreads
  <2>4. isAuthBlockedForModel(auth, LastingToken, o, t) # Zero
    BY <2>2, <2>3, OthersAfterFailure
  <2> QED BY <2>2, <2>4 DEF BlockedTimes
<1> QED BY <1>1, InvHolds, PTL DEF FailureIsolated

\* From the moment a configuration that disables cooling is published, no
\* failure of a model blocks anything unless it is forced or an unauthorized
\* one: all it can leave is a quota window that was there.
THEOREM NoCooldownWhenDisabled == Spec => DisabledCoolingBlocksNothing
<1>1. CooldownInv =>
        [(/\ coolingOff /\ results' > results
          /\ \E o \in Models : ~(BlockedTimes(o)' \subseteq BlockedTimes(o)))
           => ~\E f \in Failures, m \in Models :
                ~f.force /\ f.kind # "unauthorized" /\ Failure(m, f)]_vars
  <2> SUFFICES ASSUME CooldownInv, coolingOff, NEW o \in Models, NEW m \in Models,
                      NEW f \in Failures, ~f.force, f.kind # "unauthorized", Failure(m, f)
               PROVE  BlockedTimes(o)' \subseteq BlockedTimes(o)
    OBVIOUS
  <2> SUFFICES ASSUME NEW t \in BlockedTimes(o)' PROVE t \in BlockedTimes(o)
    OBVIOUS
  <2>1. now' = now
    BY DEF Failure, Outcome
  <2>2. t \in now..Horizon /\ isAuthBlockedForModel(auth', LastingToken, o, t) # Zero
    BY <2>1 DEF BlockedTimes
  <2>3. ~Spreads(f) /\ Off(f)
    BY DEF Spreads, Off
  <2>4. CASE o # m \/ ~Blocks(FinalCell(m, f), t)
    <3>1. isAuthBlockedForModel(auth, LastingToken, o, t) # Zero
      BY <2>2, <2>3, <2>4, OthersAfterFailure
    <3> QED BY <2>2, <3>1 DEF BlockedTimes
  <2>5. CASE o = m /\ Blocks(FinalCell(m, f), t)
    <3> DEFINE c == State(auth, m)
               p == PenalisedBy(m, f)
               d == FinalCell(m, f)
    <3>1. /\ c \in SoundCells
          /\ PenalisedAs(p, c, f.kind, Off(f), c.quota.exceeded)
          /\ AdjustedAs(d, p, c, Off(f), f.force)
      BY ReportFacts DEF CooldownInv
    <3> HIDE DEF p, d
    <3>2. now \in Nat /\ t \in Nat /\ t <= Horizon
      BY <2>2, Durations DEF CooldownInv
    <3>3. /\ d.retry = Zero /\ d.quota.recover = p.quota.recover
          /\ p.quota = c.quota \/ p.quota.recover = Zero
      BY <2>3, <3>1 DEF AdjustedAs, PenalisedAs
    <3>4. d.quota.recover > t
      BY <2>5, <3>2, <3>3 DEF Blocks, Zero, d
    <3>5. c.quota.recover > t
      BY <3>2, <3>3, <3>4 DEF Zero
    <3>6. m \in Tracked(auth) /\ c = auth.states[m]
      <4>1. CleanCell.quota.recover = 0
        BY DEF CleanCell, CleanQuota, Zero
      <4>2. c # CleanCell
        BY <3>2, <3>5, <4>1
      <4> QED BY <4>2 DEF State, Tracked
    <3> HIDE DEF c
    <3>7. Held(auth, o, t)
      BY <2>5, <3>5, <3>6 DEF Held, Blocks
    <3>8. isAuthBlockedForModel(auth, LastingToken, o, t) # Zero
      BY <3>2, <3>7, BlockedWhen DEF CooldownInv
    <3> QED BY <2>2, <3>8 DEF BlockedTimes
  <2> QED BY <2>4, <2>5
<1> QED BY <1>1, InvHolds, PTL DEF DisabledCoolingBlocksNothing

-----------------------------------------------------------------------------
\* The backoff ladder.

\* The level of a model's quota, and its deadline.
LEMMA LevelType ==
  ASSUME CooldownInv, NEW m \in Models
  PROVE  State(auth, m).quota.level \in Nat /\ State(auth, m).quota.recover \in Nat
<1>1. State(auth, m) \in SoundCells
  BY SoundAuthFacts DEF CooldownInv
<1>2. State(auth, m).quota \in Quota
  BY <1>1, CellType DEF SoundCells
<1>3. State(auth, m).quota.level \in Nat /\ State(auth, m).quota.recover \in 0..Horizon
  BY <1>2, QuotaType DEF Rungs
<1> QED BY <1>3, Durations

LEMMA CleanLevel == CleanCell.quota.level = 0 /\ CleanCell.quota.recover = 0
BY DEF CleanCell, CleanQuota, Zero

\* Recomputing the aggregate keeps the quota of every model.
LEMMA QuotaKept ==
  ASSUME now \in 1..MaxTime, NEW a \in SoundAuths, NEW b, AggregatedAs(b, a), NEW m \in Models
  PROVE  State(b, m).quota = State(a, m).quota
<1>1. CASE m \notin Tracked(a)
  BY <1>1 DEF AggregatedAs, State, Tracked
<1>2. CASE m \in Tracked(a)
  <2>1. a.states[m] \in SoundCells
    BY <1>2, SoundAuthFacts
  <2>2. Expire(a.states[m]).quota = a.states[m].quota
    BY <2>1, ExpireFacts
  <2>3. m \in Tracked(b) /\ (b.states[m] = a.states[m] \/ b.states[m] = Expire(a.states[m]))
    BY <1>2 DEF AggregatedAs
  <2> QED BY <1>2, <2>2, <2>3 DEF State, Tracked
<1> QED BY <1>1, <1>2

\* A success keeps or forgets the quota of a model.
LEMMA SuccessQuota ==
  ASSUME CooldownInv, NEW o \in Models, NEW m \in Models
  PROVE  State(SuccessResult(o), m).quota \in {State(auth, m).quota, CleanQuota}
<1> DEFINE a == [auth EXCEPT !.states[o] = CleanCell]
           b == updateAggregatedAvailability(a)
           c == [b EXCEPT !.cell.err = "none", !.cell.failed = FALSE]
<1>1. /\ a \in SoundAuths
      /\ State(a, m) = IF m = o THEN CleanCell ELSE State(auth, m)
  <2>1. CleanCell # Absent
    BY CleanIsSound, AbsentIsNoCell
  <2>2. a \in SoundAuths
    BY CleanIsSound, WithState DEF CooldownInv
  <2>3. a.states[m] = IF m = o THEN CleanCell ELSE auth.states[m]
    BY DEF CooldownInv, SoundAuths
  <2> QED BY <2>1, <2>2, <2>3 DEF State
<1> HIDE DEF a
<1>2. AggregatedAs(b, a) /\ b \in SoundAuths
  BY <1>1, AggregatedFacts DEF AggregatedAs, CooldownInv
<1>3. State(b, m).quota = State(a, m).quota
  BY <1>1, <1>2, QuotaKept DEF CooldownInv
<1> HIDE DEF b
<1>4. State(c, m) = State(b, m)
  <2>1. c.states = b.states
    BY <1>2, Forgiven
  <2> HIDE DEF c
  <2> QED BY <2>1 DEF State
<1>5. SuccessResult(o) \in {auth, b, c}
  BY DEF SuccessResult, a, b
<1> HIDE DEF c
<1>6. CleanCell.quota = CleanQuota
  BY DEF CleanCell
<1> QED BY <1>1, <1>3, <1>4, <1>5, <1>6

\* A failure of another model that is not credential-scoped keeps the quota.
LEMMA FailureQuota ==
  ASSUME CooldownInv, NEW o \in Models, NEW f \in Failures, Failure(o, f), NEW m \in Models,
         State(auth, m).quota.recover > now
  PROVE  /\ o # m /\ ~f.credentialScope => State(auth', m).quota = State(auth, m).quota
         /\ o = m /\ f.kind # "cloudflare" =>
              State(auth', m).quota.level = State(auth, m).quota.level
<1> DEFINE r == FailureResult(o, f)
<1>1. now \in 1..MaxTime /\ now \in Nat /\ now \in now..Horizon
  BY Durations DEF CooldownInv
<1>2. FailedAs(r, o, f) /\ AggregatedAs(auth', r)
  BY <1>1, AfterFailure
<1> HIDE DEF r
<1>3. r \in SoundAuths
  BY <1>2 DEF FailedAs
<1>4. State(auth', m).quota = State(r, m).quota
  BY <1>1, <1>2, <1>3, QuotaKept
<1>5. m \in Tracked(auth) /\ State(auth, m) = auth.states[m]
  <2>1. State(auth, m) # CleanCell
    BY <1>1, CleanLevel
  <2> QED BY <2>1 DEF State, Tracked
<1>6. ASSUME o # m, ~f.credentialScope PROVE State(r, m) = State(auth, m)
  BY <1>2, <1>5, <1>6 DEF FailedAs, Spreads, State, Tracked
<1>7. ASSUME o = m, f.kind # "cloudflare"
      PROVE  State(r, m).quota.level = State(auth, m).quota.level
  <2>1. State(r, m) = FinalCell(m, f)
    BY <1>2, <1>7 DEF FailedAs, State, Tracked
  <2>2. /\ PenalisedAs(PenalisedBy(m, f), State(auth, m), f.kind, Off(f),
                       State(auth, m).quota.exceeded)
        /\ AdjustedAs(FinalCell(m, f), PenalisedBy(m, f), State(auth, m), Off(f), f.force)
    BY ReportFacts DEF CooldownInv
  <2> QED BY <1>7, <2>1, <2>2 DEF PenalisedAs, AdjustedAs
<1> QED BY <1>4, <1>6, <1>7

\* A reset forgets the quota of every model.
\* Clearing forgets them, or keeps a state that holds none.
LEMMA ClearedQuotas ==
  ASSUME now \in 1..MaxTime, NEW a \in SoundAuths, NEW m \in Models,
         State(a, m).quota = CleanQuota
  PROVE  /\ clearCooldownStateForAuth(a) \in SoundAuths
         /\ State(clearCooldownStateForAuth(a), m).quota = CleanQuota
<1> DEFINE Dirty(c) == \/ c.unavailable \/ c.retry # Zero
                       \/ c.quota.exceeded \/ c.quota.recover # Zero
           Cleared(c) == IF Dirty(c) THEN [c EXCEPT !.unavailable = FALSE, !.retry = Zero,
                                                    !.quota = CleanQuota] ELSE c
           states == [i \in Models |-> IF a.states[i] = Absent THEN Absent
                                       ELSE Cleared(a.states[i])]
           b == [cell |-> Cleared(a.cell), states |-> states]
<1>1. ASSUME NEW c \in SoundCells
      PROVE  Cleared(c) \in SoundCells /\ Cleared(c).quota \in {c.quota, CleanQuota}
  <2> DEFINE d == [c EXCEPT !.unavailable = FALSE, !.retry = Zero, !.quota = CleanQuota]
  <2>1. Zero \in 0..Horizon /\ CleanQuota \in Quota /\ c \in Cell
    BY Durations, CleanIsSound DEF Zero, SoundCells
  <2>2. d \in Cell /\ ~d.unavailable /\ d.quota = CleanQuota
    BY <2>1 DEF Cell
  <2>3. SoundQuota(CleanQuota)
    BY DEF SoundQuota, CleanQuota, Zero
  <2>4. d \in SoundCells
    BY <2>2, <2>3 DEF SoundCells, Sound
  <2> QED BY <2>2, <2>4
<1>2. clearCooldownStateForAuth(a) =
         IF Tracked(a) = {} THEN b ELSE updateAggregatedAvailability(b)
  BY DEF clearCooldownStateForAuth
<1> HIDE DEF Cleared
<1>3. a.cell \in SoundCells /\ a.states \in [Models -> SoundCells \cup {Absent}]
  BY DEF SoundAuths
<1>4. b \in SoundAuths /\ b.states = states
  BY <1>1, <1>3 DEF SoundAuths
<1>5. State(b, m).quota = CleanQuota
  <2>1. CASE a.states[m] = Absent
    BY <1>4, <2>1 DEF State
  <2>2. CASE a.states[m] # Absent
    <3>1. a.states[m] \in SoundCells /\ a.states[m].quota = CleanQuota
      BY <1>3, <2>2 DEF State
    <3>2. Cleared(a.states[m]) \in SoundCells /\ Cleared(a.states[m]).quota = CleanQuota
      BY <1>1, <3>1
    <3>3. b.states[m] = Cleared(a.states[m])
      BY <1>4, <2>2
    <3> QED BY <3>2, <3>3, AbsentIsNoCell DEF State
  <2> QED BY <2>1, <2>2
<1> HIDE DEF b
<1>6. AggregatedAs(updateAggregatedAvailability(b), b)
  BY <1>4, AggregatedFacts
<1>7. State(updateAggregatedAvailability(b), m).quota = State(b, m).quota
  BY <1>4, <1>6, QuotaKept
<1> QED BY <1>2, <1>4, <1>5, <1>6, <1>7 DEF AggregatedAs

LEMMA ResetQuotas ==
  ASSUME CooldownInv, ResetQuota, NEW m \in Models
  PROVE  State(auth', m).quota = CleanQuota
<1> DEFINE states == [o \in Models |-> IF auth.states[o] = Absent THEN Absent ELSE CleanCell]
           reset == [auth EXCEPT !.states = states]
           b == clearCooldownStateForAuth(reset)
           c == IF Tracked(b) = {} THEN b ELSE updateAggregatedAvailability(b)
           d == [c EXCEPT !.cell.err = "none", !.cell.failed = FALSE]
           a == IF hasModelError(c) THEN c ELSE d
<1>1. now \in 1..MaxTime /\ auth \in SoundAuths
  BY DEF CooldownInv
<1>2. reset \in SoundAuths /\ State(reset, m) = CleanCell
  BY <1>1, CleanIsSound DEF SoundAuths, State
<1>3. auth' = a
  BY Zenon DEF ResetQuota, reset, b, c, Outcome
<1>4. CleanCell.quota = CleanQuota
  BY DEF CleanCell
<1> HIDE DEF reset
<1>5. b \in SoundAuths /\ State(b, m).quota = CleanQuota
  BY <1>1, <1>2, <1>4, ClearedQuotas
<1> HIDE DEF b
<1>6. c \in SoundAuths /\ State(c, m).quota = CleanQuota
  <2>1. AggregatedAs(updateAggregatedAvailability(b), b)
    BY <1>1, <1>5, AggregatedFacts
  <2>2. State(updateAggregatedAvailability(b), m).quota = State(b, m).quota
    BY <1>1, <1>5, <2>1, QuotaKept
  <2> QED BY <1>5, <2>1, <2>2 DEF AggregatedAs
<1> HIDE DEF c
<1>7. State(d, m) = State(c, m)
  <2>1. d.states = c.states
    BY <1>6, Forgiven
  <2> HIDE DEF d
  <2> QED BY <2>1 DEF State
<1> HIDE DEF d
<1> QED BY <1>3, <1>6, <1>7

\* A burst of quota failures climbs the backoff ladder once per open window.
THEOREM LadderClimbsByWindow == Spec => LadderRisesOncePerWindow
<1>1. CooldownInv /\ Next =>
        \A m \in Models :
          (/\ results' > results /\ State(auth, m).quota.recover > now
           /\ State(auth', m).quota.level > State(auth, m).quota.level)
          => \E f \in Failures : \/ f.kind = "cloudflare" /\ Failure(m, f)
                                 \/ f.credentialScope
                                      /\ \E o \in Models \ {m} : Failure(o, f)
  <2> SUFFICES ASSUME CooldownInv, Next, NEW m \in Models, results' > results,
                      State(auth, m).quota.recover > now,
                      State(auth', m).quota.level > State(auth, m).quota.level
               PROVE  \E f \in Failures : \/ f.kind = "cloudflare" /\ Failure(m, f)
                                          \/ f.credentialScope
                                               /\ \E o \in Models \ {m} : Failure(o, f)
    OBVIOUS
  <2>1. results \in Nat /\ results' # results
    BY BoundAssumption DEF CooldownInv
  <2>2. State(auth, m).quota.level \in Nat
    BY LevelType
  <2>3. State(auth', m).quota # State(auth, m).quota /\ State(auth', m).quota # CleanQuota
    <3>1. CleanQuota.level = 0
      BY DEF CleanQuota
    <3>2. State(auth', m).quota.level # State(auth, m).quota.level
          /\ State(auth', m).quota.level # CleanQuota.level
      BY <2>2, <3>1
    <3> QED BY ONLY <3>2, Zenon
  <2>4. ASSUME NEW o \in Models, Success(o) PROVE FALSE
    <3>1. auth' = SuccessResult(o)
      BY <2>4, SuccessFacts DEF Outcome
    <3> QED BY <2>3, <3>1, SuccessQuota
  <2>5. ASSUME NEW o \in Models, NEW f \in Failures, Failure(o, f)
        PROVE  \/ f.kind = "cloudflare" /\ o = m
               \/ f.credentialScope /\ o # m
    BY <2>2, <2>3, <2>5, FailureQuota
  <2>6. ASSUME SuccessWithoutModel PROVE FALSE
    <3>1. auth' = auth \/ auth' = [auth EXCEPT !.cell = CleanCell]
      BY <2>6 DEF SuccessWithoutModel, Outcome
    <3>2. auth'.states = auth.states
      BY <3>1 DEF CooldownInv, SoundAuths
    <3> QED BY <2>3, <3>2 DEF State
  <2>7. ASSUME NEW f \in Failures, FailureWithoutModel(f) PROVE FALSE
    <3>1. auth' = [auth EXCEPT !.cell = CellFailure(f)]
      BY <2>7, CellFailureFacts DEF Outcome
    <3>2. auth'.states = auth.states
      BY <3>1 DEF CooldownInv, SoundAuths
    <3> QED BY <2>3, <3>2 DEF State
  <2>8. CASE ResetQuota
    BY <2>3, <2>8, ResetQuotas
  <2>9. ASSUME UNCHANGED results PROVE FALSE
    BY <2>1, <2>9
  <2> QED
    BY <2>4, <2>5, <2>6, <2>7, <2>8, <2>9 DEF Next, persistCooldownStates, StoreConfig,
       clearDisabledCooldownStates, ApplyConfigWithCooldownStateStore, LoadRecords,
       MergeRecords, Crash, Restart, Tick
<1>2. CooldownInv =>
        [\A m \in Models :
          (/\ results' > results /\ State(auth, m).quota.recover > now
           /\ State(auth', m).quota.level > State(auth, m).quota.level)
          => \E f \in Failures : \/ f.kind = "cloudflare" /\ Failure(m, f)
                                 \/ f.credentialScope
                                      /\ \E o \in Models \ {m} : Failure(o, f)]_vars
             \/ ~[Next]_vars
  BY <1>1
<1> QED BY <1>2, InvHolds, PTL DEF Spec, LadderRisesOncePerWindow

-----------------------------------------------------------------------------
\* What a success frees. The credential's own cell blocks nothing that its
\* models do not: it is unavailable only under a credential quota or while a
\* model is blocked as long, and a credential without model states is blocked
\* by a credential quota alone. The same is true of the records of the file.
CredentialScoped(q) == q.reason = "credential_quota"
Backed(a) ==
  /\ CredentialScoped(a.cell.quota) => a.cell.retry <= a.cell.quota.recover
  /\ ~CredentialScoped(a.cell.quota) /\ a.cell.unavailable =>
       \E m \in Tracked(a) : a.states[m].unavailable /\ a.states[m].retry >= a.cell.retry
  /\ ~CredentialScoped(a.cell.quota) /\ Tracked(a) = {} => ~a.cell.quota.exceeded
BackedFile(g) ==
  g.cell # Absent =>
    IF CredentialScoped(g.cell.quota) THEN g.cell.retry <= g.cell.quota.recover
    ELSE \E m \in Models : g.states[m] # Absent /\ g.states[m].retry >= g.cell.retry
BackedInv == Backed(auth) /\ BackedFile(file) /\ BackedFile(loaded)

\* Without an open credential quota the aggregate is what the models' states
\* make it.
LEMMA AggregatedCell ==
  ASSUME now \in 1..MaxTime, NEW a \in SoundAuths, ~CredentialQuotaOpen(a, now),
         NEW b, b = updateAggregatedAvailability(a)
  PROVE  /\ ~CredentialScoped(b.cell.quota)
         /\ Tracked(a) = {} => ~b.cell.quota.exceeded /\ ~b.cell.unavailable
         /\ b.cell.unavailable =>
              \A m \in Tracked(a) : /\ a.states[m].unavailable /\ a.states[m].retry > now
                                    /\ b.states[m] = a.states[m]
                                    /\ b.cell.retry <= a.states[m].retry
<1> DEFINE tracked == {a.states[m] : m \in Tracked(a)}
           Live(c) == c.unavailable /\ c.retry > now
           everyModel == \A c \in tracked : Live(c)
           exceeded == {c.quota : c \in {t \in tracked : t.quota.exceeded}}
           stillOpen == a.cell.quota.exceeded /\ a.cell.quota.recover > now
           quota == IF exceeded # {}
                    THEN [exceeded |-> TRUE, reason |-> "quota",
                          recover |-> MaxOf({a.cell.quota.recover,
                                             EarliestOf({q.recover : q \in exceeded})}),
                          level |-> MaxOf({q.level : q \in exceeded})]
                    ELSE IF stillOpen THEN a.cell.quota ELSE CleanQuota
           retry == IF everyModel THEN EarliestOf({c.retry : c \in tracked}) ELSE Zero
           states == [m \in Models |-> ExpireState(a, m)]
<1>1. ~CredentialScoped(CleanQuota) /\ ~CleanQuota.exceeded
  BY DEF CredentialScoped, CleanQuota
<1>4. a.cell \in Cell
  BY SoundAuthFacts
<1>2. CASE tracked = {}
  <2>1. b = [a EXCEPT !.cell.unavailable = FALSE, !.cell.retry = Zero,
                      !.cell.quota = CleanQuota]
    BY <1>2 DEF updateAggregatedAvailability
  <2>2. b.cell.unavailable = FALSE /\ b.cell.quota = CleanQuota
    <3> DEFINE c == [a.cell EXCEPT !.unavailable = FALSE, !.retry = Zero,
                                   !.quota = CleanQuota]
    <3>1. b = [a EXCEPT !.cell = c]
      BY <2>1 DEF SoundAuths
    <3>2. c.unavailable = FALSE /\ c.quota = CleanQuota
      BY <1>4 DEF Cell
    <3> HIDE DEF c
    <3>3. b.cell = c
      BY <3>1 DEF SoundAuths
    <3> QED BY <3>2, <3>3
  <2> QED BY <1>1, <2>2
<1>3. CASE tracked # {}
  <2>1. b = [a EXCEPT !.cell.unavailable = everyModel, !.cell.retry = retry,
                      !.cell.quota = quota, !.states = states]
    BY <1>3 DEF updateAggregatedAvailability
  <2>2. ~CredentialScoped(quota)
    <3>1. CASE exceeded # {}
      BY <3>1 DEF CredentialScoped
    <3>2. CASE exceeded = {} /\ stillOpen
      BY <3>2 DEF CredentialScoped, CredentialQuotaOpen
    <3>3. CASE exceeded = {} /\ ~stillOpen
      BY <1>1, <3>3
    <3> QED BY <3>1, <3>2, <3>3
  <2> HIDE DEF everyModel, retry, quota, states
  <2>3. /\ b.cell.unavailable = everyModel /\ b.cell.quota = quota
        /\ b.cell.retry = retry /\ b.states = states
    <3> DEFINE c == [a.cell EXCEPT !.unavailable = everyModel, !.retry = retry,
                                   !.quota = quota]
    <3>1. b = [a EXCEPT !.cell = c, !.states = states]
      BY <2>1 DEF SoundAuths
    <3>2. c.unavailable = everyModel /\ c.retry = retry /\ c.quota = quota
      BY <1>4 DEF Cell
    <3> HIDE DEF c
    <3>3. b.cell = c /\ b.states = states
      BY <3>1 DEF SoundAuths
    <3> QED BY <3>2, <3>3
  <2>4. ASSUME everyModel, NEW m \in Tracked(a)
        PROVE  /\ a.states[m].unavailable /\ a.states[m].retry > now
               /\ states[m] = a.states[m]
               /\ retry <= a.states[m].retry
    <3>1. a.states[m] \in tracked /\ Live(a.states[m]) /\ a.states[m] # Absent
      BY <2>4 DEF everyModel, Tracked
    <3>2. \A c \in tracked : c.retry \in Nat
      <4>1. \A c \in tracked : c \in Cell
        BY SoundAuthFacts DEF SoundCells
      <4> QED BY <4>1, CellType, Durations
    <3>3. now \in Nat /\ now # 0
      BY Durations
    <3>4. retry <= a.states[m].retry
      <4> DEFINE R == {c.retry : c \in tracked}
      <4>1. R \in SUBSET Nat /\ a.states[m].retry \in R \ {0}
        BY <3>1, <3>2, <3>3
      <4> HIDE DEF R
      <4>2. EarliestOf(R) <= a.states[m].retry
        BY <4>1, Earliest
      <4> QED BY <2>4, <4>2 DEF retry, R
    <3>5. states[m] = a.states[m]
      <4>1. Expire(a.states[m]) = a.states[m]
        BY <3>1, <3>2, <3>3 DEF Expire
      <4>2. m \in Models
        BY DEF Tracked
      <4> QED BY <3>1, <4>1, <4>2 DEF states, ExpireState
    <3> QED BY <3>1, <3>4, <3>5
  <2>5. Tracked(a) # {}
    BY <1>3
  <2> HIDE DEF tracked
  <2> QED BY <2>2, <2>3, <2>4, <2>5
<1> QED BY <1>2, <1>3

LEMMA AggregatedBacked ==
  ASSUME now \in 1..MaxTime, NEW a \in SoundAuths,
         CredentialQuotaOpen(a, now) => a.cell.retry <= a.cell.quota.recover
  PROVE  Backed(updateAggregatedAvailability(a))
<1> DEFINE b == updateAggregatedAvailability(a)
<1>1. AggregatedAs(b, a)
  BY AggregatedFacts
<1>2. CASE CredentialQuotaOpen(a, now)
  BY <1>1, <1>2 DEF AggregatedAs, Backed, CredentialScoped, CredentialQuotaOpen
<1>3. CASE ~CredentialQuotaOpen(a, now)
  <2>1. /\ ~CredentialScoped(b.cell.quota)
        /\ Tracked(a) = {} => ~b.cell.quota.exceeded /\ ~b.cell.unavailable
        /\ b.cell.unavailable =>
             \A m \in Tracked(a) : /\ a.states[m].unavailable
                                   /\ b.states[m] = a.states[m]
                                   /\ b.cell.retry <= a.states[m].retry
    BY <1>3, AggregatedCell
  <2>2. Tracked(b) = Tracked(a)
    BY <1>1 DEF AggregatedAs
  <2>3. b.cell.retry \in Nat /\ \A m \in Tracked(a) : a.states[m].retry \in Nat
    <3>1. b.cell \in Cell /\ \A m \in Tracked(a) : a.states[m] \in Cell
      BY <1>1, SoundAuthFacts DEF AggregatedAs, SoundCells
    <3> QED BY <3>1, CellType, Durations
  <2> HIDE DEF b
  <2>4. b.cell.unavailable =>
          \E m \in Tracked(b) : b.states[m].unavailable /\ b.states[m].retry >= b.cell.retry
    BY <2>1, <2>2, <2>3
  <2> QED BY <2>1, <2>2, <2>4 DEF Backed, b
<1> QED BY <1>2, <1>3

\* What is saved of a backed credential is backed.
LEMMA BackedRecords ==
  ASSUME now \in 1..MaxTime, NEW a \in SoundAuths, Backed(a)
  PROVE  BackedFile(cooldownStateRecords(a))
<1> DEFINE g == cooldownStateRecords(a)
           Kept(c) == [retry |-> c.retry, quota |-> c.quota, err |-> c.err]
<1>1. /\ g.cell = Record(a.cell)
      /\ \A m \in Models : g.states[m] = Record(State(a, m))
  BY DEF cooldownStateRecords
<1>2. ASSUME NEW c \in SoundCells, c.unavailable, c.retry > now, ~coolingOff
      PROVE  Record(c) = Kept(c) /\ Record(c) # Absent
  <2>1. c.retry \in 0..Horizon /\ c.quota \in Quota /\ c.err \in Errors
    BY CellType DEF SoundCells
  <2>2. Kept(c) \in RecordSet
    BY <2>1 DEF RecordSet
  <2> QED BY <1>2, <2>2, AbsentAssumption DEF Record
<1>3. SUFFICES ASSUME g.cell # Absent
               PROVE  IF CredentialScoped(g.cell.quota)
                      THEN g.cell.retry <= g.cell.quota.recover
                      ELSE \E m \in Models : g.states[m] # Absent
                                             /\ g.states[m].retry >= g.cell.retry
  BY DEF BackedFile
<1> HIDE DEF g
<1>4. a.cell.unavailable /\ a.cell.retry > now /\ ~coolingOff
  BY <1>1, <1>3 DEF Record
<1>5. g.cell.quota = a.cell.quota /\ g.cell.retry = a.cell.retry
  BY <1>1, <1>2, <1>4, SoundAuthFacts
<1>6. CASE CredentialScoped(a.cell.quota)
  BY <1>5, <1>6 DEF Backed
<1>7. CASE ~CredentialScoped(a.cell.quota)
  <2>1. PICK m \in Tracked(a) :
          a.states[m].unavailable /\ a.states[m].retry >= a.cell.retry
    BY <1>4, <1>7 DEF Backed
  <2>2. /\ a.states[m] \in SoundCells /\ m \in Models
        /\ g.states[m] = Record(a.states[m])
    BY <1>1, SoundAuthFacts DEF State, Tracked
  <2>3. a.states[m].retry \in Nat /\ a.cell.retry \in Nat /\ now \in Nat
    BY <2>2, SoundAuthFacts, CellType, Durations DEF SoundCells
  <2>4. a.states[m].retry > now
    BY <1>4, <2>1, <2>3
  <2>5. Record(a.states[m]) = Kept(a.states[m]) /\ Record(a.states[m]) # Absent
    BY <1>2, <1>4, <2>1, <2>2, <2>4
  <2>6. g.states[m] # Absent /\ g.states[m].retry = a.states[m].retry
    BY <2>2, <2>5
  <2> QED BY <1>5, <1>7, <2>1, <2>2, <2>6
<1> QED BY <1>5, <1>6, <1>7

\* The restore of a model's record blocks the model as long as the record says,
\* and no other model less.
BlockedBy(b, m, r) == m \in Tracked(b) /\ b.states[m].unavailable /\ b.states[m].retry >= r.retry

LEMMA RestoredModelBacked ==
  ASSUME now \in 1..MaxTime, NEW b \in SoundAuths, Backed(b), NEW m \in Models,
         NEW r \in SoundRecords \cup {Absent}, Restorable(r)
  PROVE  LET d == RestoredModel(b, m, r)
         IN  /\ Backed(d) /\ BlockedBy(d, m, r)
             /\ \A o \in Models, k \in SoundRecords :
                  k.retry > now /\ BlockedBy(b, o, k) => BlockedBy(d, o, k)
<1> DEFINE c == State(b, m)
           x == mergeModelState(c, m \in Tracked(b), r)
           a == [b EXCEPT !.states[m] = x]
           d == RestoredModel(b, m, r)
<1>1. r \in SoundRecords /\ r.retry > now /\ now \in Nat
  BY Durations DEF Restorable
<1>2. c \in SoundCells
  BY SoundAuthFacts
<1>3. x \in SoundCells /\ Completed(r) = r
  BY <1>1, <1>2, MergeFacts
<1>4. c.retry \in Nat /\ r.retry \in Nat
  BY <1>1, <1>2, CellType, Durations DEF SoundCells, SoundRecords, RecordSet
<1>5. x.unavailable /\ x.retry >= r.retry /\ x.retry >= c.retry
  <2>1. x.unavailable /\ x.retry = MaxOf({c.retry, r.retry})
    BY DEF mergeModelState
  <2> HIDE DEF x, c
  <2> QED BY <1>4, <2>1, LaterOf
<1> HIDE DEF x
<1>6. /\ a \in SoundAuths /\ a.cell = b.cell /\ Tracked(a) = Tracked(b) \cup {m}
      /\ a.states[m] = x /\ \A o \in Models \ {m} : a.states[o] = b.states[o]
  <2>1. /\ a \in SoundAuths /\ a.cell = b.cell /\ Tracked(a) = Tracked(b) \cup {m}
        /\ a.states = [b.states EXCEPT ![m] = x]
    BY <1>3, WithState
  <2> HIDE DEF a
  <2> QED BY <2>1 DEF SoundAuths
<1>7. d = updateAggregatedAvailability(a)
  BY <1>3 DEF RestoredModel, restoreModel, x
<1> HIDE DEF a, d
<1>8. Backed(d)
  <2>1. CredentialQuotaOpen(a, now) => a.cell.retry <= a.cell.quota.recover
    BY <1>6 DEF Backed, CredentialScoped, CredentialQuotaOpen
  <2> QED BY <1>6, <1>7, <2>1, AggregatedBacked
<1>9. AggregatedAs(d, a)
  BY <1>6, <1>7, AggregatedFacts
<1>10. ASSUME NEW o \in Tracked(a), a.states[o].retry > now
       PROVE  o \in Tracked(d) /\ d.states[o] = a.states[o]
  <2>1. a.states[o].retry \in Nat
    BY <1>6, SoundAuthFacts, CellType, Durations DEF SoundCells
  <2>2. Expire(a.states[o]) = a.states[o]
    BY <1>1, <1>10, <2>1 DEF Expire
  <2> QED BY <1>9, <2>2 DEF AggregatedAs
<1>11. x.retry \in Nat
  BY <1>3, CellType, Durations DEF SoundCells
<1>12. BlockedBy(d, m, r)
  BY <1>1, <1>4, <1>5, <1>6, <1>10, <1>11 DEF BlockedBy
<1>13. ASSUME NEW o \in Models, NEW k \in SoundRecords, k.retry > now, BlockedBy(b, o, k)
       PROVE  BlockedBy(d, o, k)
  <2>1. k.retry \in Nat /\ b.states[o].retry \in Nat
    BY <1>13, SoundAuthFacts, CellType, Durations DEF SoundCells, SoundRecords, RecordSet,
       BlockedBy
  <2>2. CASE o = m
    <3>1. c = b.states[o]
      BY <1>13, <2>2 DEF State, BlockedBy, Tracked
    <3>2. x.retry >= k.retry
      BY <1>5, <1>11, <1>13, <2>1, <3>1 DEF BlockedBy
    <3> HIDE DEF c
    <3> QED BY <1>1, <1>5, <1>6, <1>10, <1>11, <1>13, <2>1, <2>2, <3>2 DEF BlockedBy
  <2>3. CASE o # m
    BY <1>1, <1>6, <1>10, <1>13, <2>1, <2>3 DEF BlockedBy
  <2> QED BY <2>2, <2>3
<1> QED BY <1>8, <1>12, <1>13 DEF d

LEMMA RestoredBacked ==
  ASSUME now \in 1..MaxTime, NEW a \in SoundAuths, Backed(a), NEW records \in SoundFiles,
         BackedFile(records)
  PROVE  Backed(RestoreCooldownStates(a, records))
<1>1. PICK g : RestoresBy(g, a, records)
  BY RestoreSteps
<1>2. /\ g \in [SUBSET Models -> SoundAuths] /\ g[{}] = a
      /\ \A s \in SUBSET Models : s # {} =>
           /\ FoldFrom(s) \in s
           /\ g[s] = RestoredModel(g[s \ {FoldFrom(s)}], FoldFrom(s), records.states[FoldFrom(s)])
      /\ RestoreCooldownStates(a, records) =
           IF Restorable(records.cell)
           THEN restoreCredential(g[Models], Completed(records.cell)) ELSE g[Models]
  BY <1>1, Zenon DEF RestoresBy
<1> DEFINE Up(s, b) == /\ Backed(b)
                       /\ \A m \in s : Restorable(records.states[m]) =>
                                         BlockedBy(b, m, records.states[m])
           G == {e \in (SUBSET Models) \X SoundAuths : Up(e[1], e[2])}
           h == [s \in SUBSET Models |-> <<s, g[s]>>]
<1>3. h[{}] \in G
  BY <1>2
<1>4. ASSUME NEW s \in SUBSET Models, s # {}, h[s \ {FoldFrom(s)}] \in G
      PROVE  h[s] \in G
  <2> DEFINE m == FoldFrom(s)
             b == g[s \ {m}]
             r == records.states[m]
  <2>1. /\ m \in s /\ m \in Models /\ s \ {m} \in SUBSET Models /\ b \in SoundAuths
        /\ g[s] \in SoundAuths /\ g[s] = RestoredModel(b, m, r)
        /\ r \in SoundRecords \cup {Absent}
    <3>1. m \in s /\ m \in Models /\ s \ {m} \in SUBSET Models
      BY <1>2, <1>4
    <3>2. b \in SoundAuths /\ g[s] \in SoundAuths
      BY <1>2, <3>1
    <3>3. g[s] = RestoredModel(b, m, r)
      BY <1>2, <1>4
    <3>4. r \in SoundRecords \cup {Absent}
      BY <3>1 DEF SoundFiles
    <3> QED BY <3>1, <3>2, <3>3, <3>4
  <2>2. Backed(b) /\ \A o \in s \ {m} : Restorable(records.states[o]) =>
                                          BlockedBy(b, o, records.states[o])
    BY <1>4, <2>1
  <2> HIDE DEF m, b, r
  <2>3. Up(s, g[s])
    <3>1. CASE ~Restorable(r)
      BY <2>1, <2>2, <3>1 DEF RestoredModel, r
    <3>2. CASE Restorable(r)
      <4>1. /\ Backed(g[s]) /\ BlockedBy(g[s], m, r)
            /\ \A o \in Models, k \in SoundRecords :
                 k.retry > now /\ BlockedBy(b, o, k) => BlockedBy(g[s], o, k)
        BY <2>1, <2>2, <3>2, RestoredModelBacked
      <4>2. ASSUME NEW o \in s \ {m}, Restorable(records.states[o])
            PROVE  BlockedBy(g[s], o, records.states[o])
        <5>1. records.states[o] \in SoundRecords /\ records.states[o].retry > now
          BY <4>2 DEF SoundFiles, Restorable
        <5> QED BY <2>2, <4>1, <4>2, <5>1
      <4> QED BY <4>1, <4>2 DEF r
    <3> QED BY <3>1, <3>2
  <2> QED BY <2>1, <2>3
<1> HIDE DEF G, h
<1>5. h[Models] \in G
  <2>1. \A s \in SUBSET Models : h[s] \in G
    BY <1>3, <1>4, ModelsAssumption, FoldKeeps
  <2> QED BY <2>1
<1> DEFINE b == g[Models]
           r == records.cell
           d == restoreCredential(b, r)
<1>6. /\ b \in SoundAuths /\ Backed(b)
      /\ \A m \in Models : Restorable(records.states[m]) => BlockedBy(b, m, records.states[m])
  BY <1>2, <1>5 DEF G, h
<1>7. ASSUME Restorable(r)
      PROVE  Completed(r) = r /\ Backed(d)
  <2>1. r \in SoundRecords /\ r # Absent /\ r.retry > now /\ r.retry \in Nat /\ now \in Nat
        /\ ~coolingOff
    BY <1>7, Durations DEF SoundFiles, SoundRecords, RecordSet, Restorable
  <2>2. Completed(r) = r
    BY <2>1, CleanIsSound, MergeFacts
  <2>3. d.cell.unavailable /\ d.cell.retry = r.retry /\ d.cell.quota = r.quota
        /\ d.states = b.states
    BY <1>6 DEF restoreCredential, SoundAuths
  <2> HIDE DEF d
  <2>4. CASE CredentialScoped(r.quota)
    <3>1. r.retry <= r.quota.recover
      BY <2>1, <2>4 DEF BackedFile
    <3>2. CredentialScoped(d.cell.quota) /\ d.cell.retry <= d.cell.quota.recover
      BY <2>3, <2>4, <3>1
    <3> QED BY ONLY <2>2, <3>2, Zenon DEF Backed
  <2>5. CASE ~CredentialScoped(r.quota)
    <3>1. PICK m \in Models : records.states[m] # Absent /\ records.states[m].retry >= r.retry
      BY <2>1, <2>5 DEF BackedFile
    <3>2. records.states[m].retry \in Nat
      BY <3>1 DEF SoundFiles, SoundRecords, RecordSet
    <3>3. Restorable(records.states[m])
      BY <2>1, <3>1, <3>2 DEF Restorable
    <3>4. /\ m \in Tracked(b) /\ b.states[m].unavailable
          /\ b.states[m].retry >= records.states[m].retry
      BY <1>6, <3>3 DEF BlockedBy
    <3>5. b.states[m].retry \in Nat
      BY <1>6, <3>4, SoundAuthFacts, CellType, Durations DEF SoundCells
    <3>6. m \in Tracked(d) /\ d.states[m].unavailable /\ d.states[m].retry >= r.retry
      BY <2>1, <2>3, <3>1, <3>2, <3>4, <3>5 DEF Tracked
    <3>7. ~CredentialScoped(d.cell.quota) /\ d.cell.retry = r.retry
      BY <2>3, <2>5
    <3>8. \E o \in Tracked(d) : d.states[o].unavailable /\ d.states[o].retry >= d.cell.retry
      BY <3>6, <3>7
    <3>9. Tracked(d) # {}
      BY <3>6
    <3> QED BY ONLY <2>2, <3>7, <3>8, <3>9, Zenon DEF Backed
  <2> QED BY <2>2, <2>4, <2>5
<1> HIDE DEF d
<1> QED BY <1>2, <1>6, <1>7 DEF d

\* Clearing, and forgetting the credential's error.
LEMMA BackedCleared ==
  ASSUME now \in 1..MaxTime, NEW a \in SoundAuths
  PROVE  /\ clearCooldownStateForAuth(a) \in SoundAuths
         /\ Backed(clearCooldownStateForAuth(a))
<1> DEFINE Dirty(c) == \/ c.unavailable \/ c.retry # Zero
                       \/ c.quota.exceeded \/ c.quota.recover # Zero
           Cleared(c) == IF Dirty(c) THEN [c EXCEPT !.unavailable = FALSE, !.retry = Zero,
                                                    !.quota = CleanQuota] ELSE c
           states == [i \in Models |-> IF a.states[i] = Absent THEN Absent
                                       ELSE Cleared(a.states[i])]
           b == [cell |-> Cleared(a.cell), states |-> states]
<1>1. ASSUME NEW c \in SoundCells
      PROVE  LET d == Cleared(c)
             IN  /\ d \in SoundCells /\ ~d.unavailable /\ d.retry = 0
                 /\ ~d.quota.exceeded /\ d.quota.recover = 0
  <2> DEFINE d == [c EXCEPT !.unavailable = FALSE, !.retry = Zero, !.quota = CleanQuota]
  <2>1. Zero \in 0..Horizon /\ CleanQuota \in Quota /\ c \in Cell /\ Zero = 0
    BY Durations, CleanIsSound DEF Zero, SoundCells
  <2>2. d \in Cell /\ ~d.unavailable /\ d.quota = CleanQuota /\ d.retry = Zero
    BY <2>1 DEF Cell
  <2>3. SoundQuota(CleanQuota) /\ ~CleanQuota.exceeded /\ CleanQuota.recover = 0
    BY DEF SoundQuota, CleanQuota, Zero
  <2>4. d \in SoundCells
    BY <2>2, <2>3 DEF SoundCells, Sound
  <2> HIDE DEF d
  <2>5. CASE Dirty(c)
    BY <2>1, <2>2, <2>3, <2>4, <2>5 DEF d
  <2>6. CASE ~Dirty(c)
    BY <2>1, <2>6
  <2> QED BY <2>5, <2>6
<1>2. clearCooldownStateForAuth(a) =
         IF Tracked(a) = {} THEN b ELSE updateAggregatedAvailability(b)
  BY DEF clearCooldownStateForAuth
<1> HIDE DEF Cleared
<1>3. a.cell \in SoundCells /\ a.states \in [Models -> SoundCells \cup {Absent}]
  BY DEF SoundAuths
<1>4. b \in SoundAuths /\ b.cell = Cleared(a.cell)
  BY <1>1, <1>3 DEF SoundAuths
<1>5. /\ ~b.cell.unavailable /\ b.cell.retry = 0
      /\ ~b.cell.quota.exceeded /\ b.cell.quota.recover = 0
  BY <1>1, <1>3, <1>4
<1> HIDE DEF b
<1>6. Backed(b)
  BY <1>5 DEF Backed
<1>7. Backed(updateAggregatedAvailability(b))
  BY <1>4, <1>5, AggregatedBacked
<1>8. updateAggregatedAvailability(b) \in SoundAuths
  BY <1>4, AggregatedFacts DEF AggregatedAs
<1> QED BY <1>2, <1>4, <1>6, <1>7, <1>8

LEMMA BackedForgiven ==
  ASSUME NEW a \in SoundAuths, Backed(a)
  PROVE  Backed([a EXCEPT !.cell.err = "none", !.cell.failed = FALSE])
<1> DEFINE d == [a EXCEPT !.cell.err = "none", !.cell.failed = FALSE]
<1>1. /\ d.states = a.states /\ d.cell.quota = a.cell.quota
      /\ d.cell.retry = a.cell.retry /\ d.cell.unavailable = a.cell.unavailable
  BY Forgiven
<1> HIDE DEF d
<1>2. Tracked(d) = Tracked(a)
  BY <1>1 DEF Tracked
<1>3. Backed(d)
  BY <1>1, <1>2 DEF Backed
<1> QED BY <1>3 DEF d

\* The outcomes.
LEMMA BackedOutcomes ==
  ASSUME CooldownInv, BackedInv, NEW m \in Models
  PROVE  /\ Success(m) => Backed(auth')
         /\ \A f \in Failures : Failure(m, f) => Backed(auth')
<1>1. now \in 1..MaxTime /\ auth \in SoundAuths /\ Backed(auth) /\ coolingOff \in BOOLEAN
  BY DEF CooldownInv, BackedInv
<1>2. CredentialQuotaOpen(auth, now) => auth.cell.retry <= auth.cell.quota.recover
  BY <1>1 DEF Backed, CredentialScoped, CredentialQuotaOpen
<1>3. ASSUME Success(m) PROVE Backed(auth')
  <2> DEFINE a == [auth EXCEPT !.states[m] = CleanCell]
             b == updateAggregatedAvailability(a)
  <2>1. a \in SoundAuths /\ a.cell = auth.cell
    BY <1>1, CleanIsSound, WithState
  <2>2. CredentialQuotaOpen(a, now) => a.cell.retry <= a.cell.quota.recover
    BY <1>2, <2>1 DEF CredentialQuotaOpen
  <2> HIDE DEF a
  <2>3. b \in SoundAuths /\ Backed(b)
    BY <1>1, <2>1, <2>2, AggregatedFacts, AggregatedBacked DEF AggregatedAs
  <2> HIDE DEF b
  <2>4. Backed([b EXCEPT !.cell.err = "none", !.cell.failed = FALSE])
    BY <2>3, BackedForgiven
  <2>5. SuccessResult(m) \in {auth, b, [b EXCEPT !.cell.err = "none", !.cell.failed = FALSE]}
    BY DEF SuccessResult, a, b
  <2>6. auth' = SuccessResult(m)
    BY <1>3, SuccessFacts DEF Outcome
  <2> QED BY <1>1, <2>3, <2>4, <2>5, <2>6
<1>4. ASSUME NEW f \in Failures, Failure(m, f) PROVE Backed(auth')
  <2> DEFINE r == FailureResult(m, f)
  <2>1. FailedAs(r, m, f)
    BY <1>1, FailureResultFacts
  <2>2. Outcome(updateAggregatedAvailability(r))
    BY <1>4, FailureIs
  <2> HIDE DEF r
  <2>3. r \in SoundAuths /\ r.cell.quota.recover \in Nat
    <3>1. r \in SoundAuths /\ r.cell \in Cell
      BY <2>1, SoundAuthFacts DEF FailedAs
    <3>2. r.cell.quota \in Quota
      BY <3>1, CellType
    <3>3. r.cell.quota.recover \in 0..Horizon
      BY <3>2, QuotaType
    <3> QED BY <3>1, <3>3, Durations
  <2>4. CredentialQuotaOpen(r, now) => r.cell.retry <= r.cell.quota.recover
    <3>1. CASE Spreads(f)
      BY <2>1, <2>3, <3>1 DEF FailedAs
    <3>2. CASE ~Spreads(f)
      BY <1>2, <2>1, <3>2 DEF FailedAs, CredentialQuotaOpen
    <3> QED BY <3>1, <3>2
  <2>5. Backed(updateAggregatedAvailability(r))
    BY <1>1, <2>3, <2>4, AggregatedBacked
  <2> QED BY <2>2, <2>5 DEF Outcome
<1> QED BY <1>3, <1>4

LEMMA BackedReset ==
  ASSUME CooldownInv, ResetQuota
  PROVE  Backed(auth')
<1> DEFINE states == [o \in Models |-> IF auth.states[o] = Absent THEN Absent ELSE CleanCell]
           reset == [auth EXCEPT !.states = states]
           b == clearCooldownStateForAuth(reset)
           c == IF Tracked(b) = {} THEN b ELSE updateAggregatedAvailability(b)
           a == IF hasModelError(c) THEN c
                ELSE [c EXCEPT !.cell.err = "none", !.cell.failed = FALSE]
<1>1. now \in 1..MaxTime /\ auth \in SoundAuths
  BY DEF CooldownInv
<1>2. reset \in SoundAuths
  BY <1>1, CleanIsSound DEF SoundAuths
<1>3. auth' = a
  BY Zenon DEF ResetQuota, reset, b, c, Outcome
<1> HIDE DEF reset
<1>4. b \in SoundAuths /\ Backed(b)
  BY <1>1, <1>2, BackedCleared
<1> HIDE DEF b
<1>5. c \in SoundAuths /\ Backed(c)
  <2>1. CredentialQuotaOpen(b, now) => b.cell.retry <= b.cell.quota.recover
    BY <1>4 DEF Backed, CredentialScoped, CredentialQuotaOpen
  <2>2. updateAggregatedAvailability(b) \in SoundAuths
    BY <1>1, <1>4, AggregatedFacts DEF AggregatedAs
  <2>3. Backed(updateAggregatedAvailability(b))
    BY <1>1, <1>4, <2>1, AggregatedBacked
  <2> QED BY <1>4, <2>2, <2>3
<1> HIDE DEF c
<1>6. Backed([c EXCEPT !.cell.err = "none", !.cell.failed = FALSE])
  BY <1>5, BackedForgiven
<1> QED BY <1>3, <1>5, <1>6

LEMMA FreshBacked == Backed(FreshAuth) /\ BackedFile(NoRecords)
<1>1. /\ CleanCell.quota = CleanQuota /\ ~CleanCell.unavailable
      /\ ~CleanQuota.exceeded /\ ~CredentialScoped(CleanQuota)
  BY DEF CleanCell, CleanQuota, CredentialScoped
<1>2. FreshAuth.cell = CleanCell
  BY DEF FreshAuth
<1> QED BY <1>1, <1>2 DEF Backed, BackedFile, NoRecords

LEMMA BackedPreserved ==
  ASSUME ~ModelLess
  PROVE  CooldownInv /\ BackedInv /\ [Next]_vars => BackedInv'
<1> SUFFICES ASSUME CooldownInv, BackedInv, [Next]_vars PROVE BackedInv'
  OBVIOUS
<1>1. /\ now \in 1..MaxTime /\ auth \in SoundAuths
      /\ file \in SoundFiles /\ loaded \in SoundFiles
      /\ Backed(auth) /\ BackedFile(file) /\ BackedFile(loaded)
  BY DEF CooldownInv, BackedInv
<1>2. SUFFICES Backed(auth') /\ BackedFile(file') /\ BackedFile(loaded')
  BY DEF BackedInv, Backed, BackedFile, Tracked
<1>3. BackedFile(cooldownStateRecords(auth))
  BY <1>1, BackedRecords
<1>4. ASSUME UNCHANGED <<file, loaded>>, Backed(auth')
      PROVE  Backed(auth') /\ BackedFile(file') /\ BackedFile(loaded')
  BY <1>1, <1>4
<1>5. ASSUME NEW m \in Models, Success(m)
      PROVE  Backed(auth') /\ BackedFile(file') /\ BackedFile(loaded')
  BY <1>4, <1>5, BackedOutcomes DEF Success, Outcome
<1>6. ASSUME NEW m \in Models, NEW f \in Failures, Failure(m, f)
      PROVE  Backed(auth') /\ BackedFile(file') /\ BackedFile(loaded')
  BY <1>4, <1>6, BackedOutcomes DEF Failure, Outcome
<1>7. CASE ResetQuota
  BY <1>4, <1>7, BackedReset DEF ResetQuota, Outcome
<1>8. CASE persistCooldownStates
  BY <1>1, <1>3, <1>8 DEF persistCooldownStates
<1>9. ASSUME NEW off \in BOOLEAN, StoreConfig(off)
      PROVE  Backed(auth') /\ BackedFile(file') /\ BackedFile(loaded')
  BY <1>1, <1>9 DEF StoreConfig
<1>10. CASE clearDisabledCooldownStates
  BY <1>1, <1>10, BackedCleared DEF clearDisabledCooldownStates
<1>11. CASE ApplyConfigWithCooldownStateStore
  BY <1>1, <1>3, <1>11 DEF ApplyConfigWithCooldownStateStore
<1>12. CASE LoadRecords
  BY <1>1, <1>12 DEF LoadRecords
<1>13. CASE MergeRecords
  BY <1>1, <1>13, RestoredBacked, FreshBacked DEF MergeRecords
<1>14. CASE Crash
  BY <1>1, <1>14, FreshBacked DEF Crash
<1>15. CASE Restart
  BY <1>1, <1>15, RestoredBacked, FreshSound, FreshBacked DEF Restart
<1>16. CASE Tick \/ UNCHANGED vars
  BY <1>1, <1>16 DEF Tick, vars
<1> QED BY <1>5, <1>6, <1>7, <1>8, <1>9, <1>10, <1>11, <1>12, <1>13, <1>14, <1>15, <1>16
        DEF Next, SuccessWithoutModel, FailureWithoutModel

LEMMA BackedHolds ==
  ASSUME ~ModelLess
  PROVE  Spec => [](CooldownInv /\ BackedInv)
<1>1. Init => BackedInv
  BY FreshBacked DEF Init, BackedInv
<1> QED BY <1>1, InvInitially, InvPreserved, BackedPreserved, PTL DEF Spec

\* A success outside a credential quota: its model is free, the others keep
\* their own states, and the credential's cell blocks nothing.
LEMMA AfterSuccess ==
  ASSUME CooldownInv, Backed(auth), NEW m \in Models, Success(m),
         ~CredentialQuotaOpen(auth, now), NEW o \in Models, NEW t \in now..Horizon
  PROVE  /\ isAuthBlockedForModel(auth', LastingToken, o, t) # Zero <=>
              o # m /\ o \in Tracked(auth) /\ Blocks(auth.states[o], t)
         /\ o # m /\ ~Refused(auth) =>
              (isAuthBlockedForModel(auth', LastingToken, o, t) # Zero <=>
                 isAuthBlockedForModel(auth, LastingToken, o, t) # Zero)
<1> DEFINE a == [auth EXCEPT !.states[m] = CleanCell]
           b == updateAggregatedAvailability(a)
           c == [b EXCEPT !.cell.err = "none", !.cell.failed = FALSE]
<1>1. /\ now \in 1..MaxTime /\ auth \in SoundAuths /\ now \in Nat /\ t \in Nat /\ t >= now
      /\ Zero = 0
  BY Durations DEF CooldownInv, Zero
<1>2. /\ a \in SoundAuths /\ a.cell = auth.cell /\ Tracked(a) = Tracked(auth) \cup {m}
      /\ a.states[m] = CleanCell /\ \A i \in Models \ {m} : a.states[i] = auth.states[i]
  <2>1. /\ a \in SoundAuths /\ a.cell = auth.cell /\ Tracked(a) = Tracked(auth) \cup {m}
        /\ a.states = [auth.states EXCEPT ![m] = CleanCell]
    BY <1>1, CleanIsSound, WithState
  <2> HIDE DEF a
  <2>2. auth.states \in [Models -> SoundCells \cup {Absent}]
    BY <1>1 DEF SoundAuths
  <2> QED BY <2>1, <2>2
<1>3. ~CredentialQuotaOpen(a, now)
  BY <1>2 DEF CredentialQuotaOpen
<1>4. auth' \in {b, c}
  <2>1. SuccessResult(m) \in {b, c}
    BY DEF SuccessResult
  <2>2. auth' = SuccessResult(m)
    BY SuccessFacts DEF Outcome
  <2> QED BY <2>1, <2>2
<1>5. CleanCell.quota.recover = 0 /\ CleanCell.retry = 0 /\ ~CleanCell.unavailable
  BY DEF CleanCell, CleanQuota, Zero
<1> HIDE DEF a
<1>6. AggregatedAs(b, a)
  BY <1>1, <1>2, AggregatedFacts
<1>7. ~CredentialScoped(b.cell.quota) /\ ~b.cell.unavailable
  <2>1. /\ ~CredentialScoped(b.cell.quota)
        /\ b.cell.unavailable => a.states[m].unavailable
    BY <1>1, <1>2, <1>3, AggregatedCell
  <2> QED BY <1>2, <1>5, <2>1
<1> HIDE DEF b
<1>8. b \in SoundAuths /\ Tracked(b) = Tracked(a)
      /\ \A i \in Tracked(a) : b.states[i] = a.states[i] \/ b.states[i] = Expire(a.states[i])
  BY <1>6 DEF AggregatedAs
<1>9. /\ auth' \in SoundAuths /\ auth'.states = b.states /\ auth'.cell.quota = b.cell.quota
      /\ ~auth'.cell.unavailable
  <2>1. /\ c \in SoundAuths /\ c.states = b.states /\ c.cell.quota = b.cell.quota
        /\ c.cell.unavailable = b.cell.unavailable
    BY <1>8, Forgiven
  <2> HIDE DEF c
  <2> QED BY <1>4, <1>7, <1>8, <2>1
<1> HIDE DEF c
<1>10. ~Refused(auth') /\ ~CredentialQuotaOpen(auth', t)
  BY <1>7, <1>9 DEF Refused, CredentialQuotaOpen, CredentialScoped
<1>11. Tracked(auth') = Tracked(auth) \cup {m}
  BY <1>2, <1>8, <1>9 DEF Tracked
<1>12. ASSUME o \in Tracked(auth')
       PROVE  Blocks(auth'.states[o], t) <=> o # m /\ Blocks(auth.states[o], t)
  <2>1. o \in Tracked(a) /\ a.states[o] \in SoundCells
    BY <1>2, <1>11, <1>12, SoundAuthFacts
  <2>2. Blocks(auth'.states[o], t) <=> Blocks(a.states[o], t)
    BY <1>1, <1>8, <1>9, <2>1, ExpireFacts
  <2>3. ~Blocks(CleanCell, t)
    BY <1>1, <1>5 DEF Blocks
  <2> QED BY <1>2, <2>2, <2>3
<1>13. isAuthBlockedForModel(auth', LastingToken, o, t) # Zero <=>
         o # m /\ o \in Tracked(auth) /\ Blocks(auth.states[o], t)
  <2>1. isAuthBlockedForModel(auth', LastingToken, o, t) # Zero <=> Held(auth', o, t)
    BY <1>1, <1>9, <1>10, BlockedWhen
  <2>2. Held(auth', o, t) <=> o \in Tracked(auth') /\ Blocks(auth'.states[o], t)
    BY <1>10, <1>11, Zenon DEF Held
  <2> QED BY <1>11, <1>12, <2>1, <2>2
<1>14. ASSUME o # m, ~Refused(auth)
       PROVE  isAuthBlockedForModel(auth, LastingToken, o, t) # Zero <=>
                o \in Tracked(auth) /\ Blocks(auth.states[o], t)
  <2>1. isAuthBlockedForModel(auth, LastingToken, o, t) # Zero <=> Held(auth, o, t)
    BY <1>1, <1>14, BlockedWhen
  <2>2. /\ auth.cell.retry \in Nat /\ auth.cell.quota.recover \in Nat
        /\ SoundQuota(auth.cell.quota)
    <3>1. auth.cell \in Cell /\ Sound(auth.cell)
      BY <1>1, SoundAuthFacts
    <3>2. auth.cell.quota \in Quota /\ auth.cell.retry \in 0..Horizon
      BY <3>1, CellType
    <3>3. auth.cell.quota.recover \in 0..Horizon
      BY <3>2, QuotaType
    <3> QED BY <3>1, <3>2, <3>3, Durations DEF Sound
  <2>3. ~CredentialQuotaOpen(auth, t)
    BY <1>1, <2>2 DEF CredentialQuotaOpen
  <2>4. Tracked(auth) = {} => ~Blocks(auth.cell, t)
    <3> SUFFICES ASSUME Tracked(auth) = {} PROVE ~Blocks(auth.cell, t)
      OBVIOUS
    <3>1. CASE CredentialScoped(auth.cell.quota)
      <4>1. auth.cell.retry <= auth.cell.quota.recover /\ auth.cell.quota.recover <= now
        BY <1>1, <2>2, <3>1 DEF Backed, CredentialScoped, CredentialQuotaOpen
      <4> QED BY <1>1, <2>2, <4>1 DEF Blocks
    <3>2. CASE ~CredentialScoped(auth.cell.quota)
      <4>1. ~auth.cell.unavailable /\ ~auth.cell.quota.exceeded
        BY <3>2 DEF Backed
      <4>2. auth.cell.quota.recover = 0
        BY <1>1, <4>1, <2>2 DEF SoundQuota
      <4> QED BY <1>1, <4>1, <4>2 DEF Blocks
    <3> QED BY <3>1, <3>2
  <2> QED BY <2>1, <2>3, <2>4, Zenon DEF Held
<1> QED BY <1>13, <1>14

\* A success makes its model selectable at once and leaves the other models as
\* they were; under an open credential quota it frees nothing. Where outcomes
\* name no model, the credential's own cell may block every model and a success
\* frees them all: the theorem is about credentials whose outcomes name one.
THEOREM SuccessFreesOnlyItsModel ==
  ASSUME ~ModelLess
  PROVE  Spec => SuccessFreesItsModelOnly
<1>1. CooldownInv /\ BackedInv =>
        [\A m \in Models : results' > results /\ Success(m) =>
           /\ CredentialQuotaOpen(auth, now) \/ BlockedTimes(m)' = {}
           /\ \A o \in Models \ {m} :
                Refused(auth) \/ BlockedTimes(o)' = BlockedTimes(o)]_vars
  <2> SUFFICES ASSUME CooldownInv, Backed(auth), NEW m \in Models, Success(m)
               PROVE  /\ CredentialQuotaOpen(auth, now) \/ BlockedTimes(m)' = {}
                      /\ \A o \in Models \ {m} :
                           Refused(auth) \/ BlockedTimes(o)' = BlockedTimes(o)
    BY DEF BackedInv
  <2>1. now' = now
    BY DEF Success, Outcome
  <2>2. CASE CredentialQuotaOpen(auth, now)
    <3>1. auth' = auth
      BY <2>2 DEF Success, Outcome
    <3> QED BY <2>1, <2>2, <3>1 DEF BlockedTimes
  <2>3. CASE ~CredentialQuotaOpen(auth, now)
    <3>1. \A o \in Models : BlockedTimes(o)' =
                              {t \in now..Horizon : isAuthBlockedForModel(auth', LastingToken, o, t) # Zero}
      BY <2>1 DEF BlockedTimes
    <3>2. \A t \in now..Horizon : isAuthBlockedForModel(auth', LastingToken, m, t) = Zero
      BY <2>3, AfterSuccess
    <3>3. ASSUME NEW o \in Models \ {m}, ~Refused(auth)
          PROVE  \A t \in now..Horizon : isAuthBlockedForModel(auth', LastingToken, o, t) # Zero <=>
                                           isAuthBlockedForModel(auth, LastingToken, o, t) # Zero
      BY <2>3, <3>3, AfterSuccess
    <3>4. BlockedTimes(m)' = {}
      BY <3>1, <3>2
    <3>5. \A o \in Models \ {m} :
            Refused(auth) \/ BlockedTimes(o)' = BlockedTimes(o)
      BY <3>1, <3>3 DEF BlockedTimes
    <3> QED BY <3>4, <3>5
  <2> QED BY <2>2, <2>3
<1> QED BY <1>1, BackedHolds, PTL DEF SuccessFreesItsModelOnly

-----------------------------------------------------------------------------
\* What a failure may shorten. A quota window that is open lies within the
\* deadline of its model, so a Cloudflare challenge, which starts a window of its
\* own, only extends what blocks. With cooling disabled this is not so: an
\* outcome clears the deadline and keeps the window.
WithinInv == /\ \A m \in Tracked(auth) : WindowInside(auth.states[m])
             /\ \A m \in Models : file.states[m] # Absent => WindowInside(file.states[m])
             /\ \A m \in Models : loaded.states[m] # Absent => WindowInside(loaded.states[m])

\* The deadlines of a sound cell.
LEMMA Deadlines ==
  ASSUME now \in 1..MaxTime, NEW c \in SoundCells
  PROVE  /\ now \in Nat /\ now # 0 /\ c.retry \in Nat /\ c.quota.recover \in Nat
         /\ SoundQuota(c.quota)
<1>1. c \in Cell /\ SoundQuota(c.quota)
  BY DEF SoundCells, Sound
<1>2. c.quota \in Quota /\ c.retry \in 0..Horizon
  BY <1>1, CellType
<1>3. c.quota.recover \in 0..Horizon
  BY <1>2, QuotaType
<1> QED BY <1>1, <1>2, <1>3, Durations

LEMMA CleanWithin == WindowInside(CleanCell) \/ now \notin 1..MaxTime
<1>1. CleanCell.quota.recover = 0
  BY DEF CleanCell, CleanQuota, Zero
<1> QED BY <1>1, Durations DEF WindowInside

\* Recomputing the aggregate keeps the windows within.
LEMMA WithinAggregated ==
  ASSUME now \in 1..MaxTime, NEW a \in SoundAuths,
         \A m \in Tracked(a) : WindowInside(a.states[m]),
         NEW b, AggregatedAs(b, a)
  PROVE  \A m \in Tracked(b) : WindowInside(b.states[m])
<1> SUFFICES ASSUME NEW m \in Tracked(b) PROVE WindowInside(b.states[m])
  OBVIOUS
<1> DEFINE c == a.states[m]
<1>1. m \in Tracked(a) /\ (b.states[m] = c \/ b.states[m] = Expire(c))
  BY DEF AggregatedAs
<1>2. c \in SoundCells /\ WindowInside(c)
  BY <1>1, SoundAuthFacts
<1>3. /\ Expire(c).quota = c.quota
      /\ Expire(c).retry = c.retry \/ (Expire(c).retry = Zero /\ c.retry <= now)
  BY <1>2, ExpireFacts
<1> HIDE DEF c
<1>4. WindowInside(Expire(c))
  BY <1>2, <1>3, Deadlines DEF WindowInside, Zero
<1> QED BY <1>1, <1>2, <1>4

\* The cell of the model that failed, when cooling applies.
LEMMA WithinFailed ==
  ASSUME CooldownInv, ~TransientDisabled, NEW m \in Models, NEW f \in Failures, ~Off(f),
         WindowInside(State(auth, m))
  PROVE  /\ WindowInside(FinalCell(m, f))
         /\ \A t \in Nat : t >= now /\ Blocks(State(auth, m), t) => Blocks(FinalCell(m, f), t)
<1> DEFINE c == State(auth, m)
           p == PenalisedBy(m, f)
           d == FinalCell(m, f)
<1>1. /\ now \in 1..MaxTime /\ c \in SoundCells
      /\ PenalisedAs(p, c, f.kind, Off(f), c.quota.exceeded)
      /\ AdjustedAs(d, p, c, Off(f), f.force)
  BY ReportFacts DEF CooldownInv
<1>2. f.kind \in Kinds
  BY FailureType
<1> HIDE DEF c, p, d
<1>3. /\ now \in Nat /\ now # 0 /\ c.retry \in Nat /\ c.quota.recover \in Nat
      /\ SoundQuota(c.quota) /\ d.retry \in Nat /\ d.quota.recover \in Nat
  BY <1>1, Deadlines DEF AdjustedAs
<1>4. /\ d.quota = p.quota /\ d.retry >= p.retry /\ (p.unavailable => d.unavailable)
      /\ p.retry # Zero /\ c.retry > now => d.retry >= c.retry
  BY <1>1 DEF AdjustedAs
<1>5. p.retry \in Nat
  <2>1. p \in Cell
    BY <1>1 DEF PenalisedAs
  <2> QED BY <2>1, CellType, Durations
<1>6. p.retry # Zero /\ p.unavailable
  <2>1. CASE f.kind = "transient"
    BY <1>1, <2>1 DEF PenalisedAs
  <2>2. CASE f.kind # "transient"
    <3>1. p.retry > now /\ p.unavailable
      BY <1>1, <2>2 DEF PenalisedAs
    <3> QED BY <1>3, <1>5, <3>1 DEF Zero
  <2> QED BY <2>1, <2>2
<1>7. d.unavailable /\ (c.retry > now => d.retry >= c.retry)
  BY <1>4, <1>6
<1>8. WindowInside(c)
  BY DEF c
<1>9. CASE f.kind \in {"quota", "cloudflare"}
  <2>1. p.retry = p.quota.recover
    BY <1>1, <1>9 DEF PenalisedAs
  <2>2. WindowInside(d)
    BY <1>3, <1>4, <1>5, <2>1 DEF WindowInside
  <2>3. ASSUME NEW t \in Nat, t >= now, c.retry > t PROVE Blocks(d, t)
    BY <1>3, <1>7, <2>3 DEF Blocks
  <2>4. ASSUME NEW t \in Nat, t >= now, c.quota.recover > t PROVE Blocks(d, t)
    <3>1. c.retry > t
      BY <1>3, <1>8, <2>4 DEF WindowInside
    <3> QED BY <2>3, <2>4, <3>1
  <2> QED BY <2>2, <2>3, <2>4 DEF Blocks, c, d
<1>10. CASE f.kind \notin {"quota", "cloudflare"}
  <2>1. d.quota = c.quota
    BY <1>1, <1>4, <1>10 DEF PenalisedAs
  <2>2. WindowInside(d)
    BY <1>3, <1>7, <1>8, <2>1 DEF WindowInside
  <2>3. ASSUME NEW t \in Nat, t >= now, c.retry > t PROVE Blocks(d, t)
    BY <1>3, <1>7, <2>3 DEF Blocks
  <2>4. ASSUME NEW t \in Nat, t >= now, c.quota.recover > t PROVE Blocks(d, t)
    BY <2>1, <2>4 DEF Blocks
  <2> QED BY <2>2, <2>3, <2>4 DEF Blocks, c, d
<1> QED BY <1>9, <1>10

\* And the cells of the others.
LEMMA WithinReached ==
  ASSUME CooldownInv, NEW m \in Models, NEW f \in Failures, ~Off(f),
         NEW o \in Tracked(auth) \ {m}, WindowInside(auth.states[o]), NEW r, FailedAs(r, m, f)
  PROVE  /\ WindowInside(r.states[o])
         /\ \A t \in Nat : Blocks(auth.states[o], t) => Blocks(r.states[o], t)
<1> DEFINE c == auth.states[o]
           d == r.states[o]
<1>1. c \in SoundCells /\ d \in SoundCells /\ now \in 1..MaxTime /\ m \in Models
  BY SoundAuthFacts DEF FailedAs, CooldownInv
<1>2. CASE ~Spreads(f)
  BY <1>2 DEF FailedAs
<1>3. CASE Spreads(f)
  <2> DEFINE p == PenalisedBy(m, f)
  <2>1. d = ReachedBy(p, c)
    BY <1>3 DEF FailedAs
  <2>2. p \in Cell /\ p.quota.recover > now
    <3>1. PenalisedAs(p, State(auth, m), f.kind, Off(f), State(auth, m).quota.exceeded)
      BY ReportFacts DEF CooldownInv
    <3>2. f.kind = "quota"
      BY <1>3, FailureType DEF Spreads
    <3> QED BY <3>1, <3>2 DEF PenalisedAs
  <2> HIDE DEF p, c, d
  <2>3. /\ d.unavailable /\ d.retry >= c.retry /\ d.retry >= d.quota.recover
        /\ d.quota.recover >= c.quota.recover
    BY <1>1, <2>1, <2>2, ReachedFacts
  <2>4. /\ c.retry \in Nat /\ c.quota.recover \in Nat
        /\ d.retry \in Nat /\ d.quota.recover \in Nat
    BY <1>1, Deadlines
  <2>5. WindowInside(d)
    BY <2>3 DEF WindowInside
  <2>6. \A t \in Nat : Blocks(c, t) => Blocks(d, t)
    BY <2>3, <2>4 DEF Blocks
  <2> QED BY <2>5, <2>6 DEF c, d
<1> QED BY <1>2, <1>3

\* After a failure.
LEMMA WithinFailure ==
  ASSUME CooldownInv, ~TransientDisabled, ~coolingOff, WithinInv,
         NEW m \in Models, NEW f \in Failures
  PROVE  /\ \A o \in Tracked(FailureResult(m, f)) : WindowInside(FailureResult(m, f).states[o])
         /\ \A o \in Tracked(auth), t \in Nat : t >= now /\ Blocks(auth.states[o], t) =>
              Blocks(FailureResult(m, f).states[o], t)
<1> DEFINE r == FailureResult(m, f)
<1>1. FailedAs(r, m, f)
  BY FailureResultFacts DEF CooldownInv
<1> HIDE DEF r
<1>2. ~Off(f) /\ now \in 1..MaxTime
  BY DEF WithinInv, Off, CooldownInv
<1>3. WindowInside(State(auth, m))
  <2>1. CASE m \in Tracked(auth)
    BY <2>1 DEF WithinInv, State, Tracked
  <2>2. CASE m \notin Tracked(auth)
    BY <1>2, <2>2, CleanWithin DEF State, Tracked
  <2> QED BY <2>1, <2>2
<1>4. /\ WindowInside(r.states[m])
      /\ \A t \in Nat : t >= now /\ Blocks(State(auth, m), t) => Blocks(r.states[m], t)
  BY <1>1, <1>2, <1>3, WithinFailed DEF FailedAs
<1>5. \A o \in Tracked(auth) \ {m} :
        /\ WindowInside(r.states[o])
        /\ \A t \in Nat : Blocks(auth.states[o], t) => Blocks(r.states[o], t)
  BY <1>1, <1>2, WithinReached DEF WithinInv
<1>6. Tracked(r) = Tracked(auth) \cup {m}
  BY <1>1 DEF FailedAs
<1>7. m \in Tracked(auth) => State(auth, m) = auth.states[m]
  BY DEF State, Tracked
<1> QED BY <1>4, <1>5, <1>6, <1>7, Zenon DEF r

\* The record of a model, merged into the state it has.
LEMMA WithinMerged ==
  ASSUME now \in 1..MaxTime, NEW c \in SoundCells, WindowInside(c), NEW existed,
         NEW r \in SoundRecords, r.retry > now, WindowInside(r)
  PROVE  WindowInside(mergeModelState(c, existed, r))
<1> DEFINE x == mergeModelState(c, existed, r)
<1>1. /\ x.retry = MaxOf({c.retry, r.retry})
      /\ x.quota.recover = MaxOf({c.quota.recover, r.quota.recover})
  BY DEF mergeModelState
<1>2. now \in Nat /\ c.retry \in Nat /\ c.quota.recover \in Nat
  BY Deadlines
<1>3. r.retry \in Nat /\ r.quota.recover \in Nat
  <2>1. r.quota \in Quota /\ r.retry \in 0..Horizon
    BY DEF SoundRecords, RecordSet
  <2>2. r.quota.recover \in 0..Horizon
    BY <2>1, QuotaType
  <2> QED BY <2>1, <2>2, Durations
<1> HIDE DEF x
<1>4. /\ x.retry >= c.retry /\ x.retry >= r.retry /\ x.retry \in Nat
      /\ x.quota.recover \in {c.quota.recover, r.quota.recover}
  BY <1>1, <1>2, <1>3, LaterOf
<1>5. WindowInside(x)
  BY <1>2, <1>3, <1>4 DEF WindowInside
<1> QED BY <1>5 DEF x

LEMMA WithinRestored ==
  ASSUME now \in 1..MaxTime, NEW a \in SoundAuths,
         \A m \in Tracked(a) : WindowInside(a.states[m]), NEW records \in SoundFiles,
         \A m \in Models : records.states[m] # Absent => WindowInside(records.states[m])
  PROVE  LET b == RestoreCooldownStates(a, records)
         IN  \A m \in Tracked(b) : WindowInside(b.states[m])
<1>1. PICK g : RestoresBy(g, a, records)
  BY RestoreSteps
<1>2. /\ g \in [SUBSET Models -> SoundAuths] /\ g[{}] = a
      /\ \A s \in SUBSET Models : s # {} =>
           /\ FoldFrom(s) \in s
           /\ g[s] = RestoredModel(g[s \ {FoldFrom(s)}], FoldFrom(s), records.states[FoldFrom(s)])
      /\ RestoreCooldownStates(a, records) =
           IF Restorable(records.cell)
           THEN restoreCredential(g[Models], Completed(records.cell)) ELSE g[Models]
  BY <1>1, Zenon DEF RestoresBy
<1> DEFINE G == {b \in SoundAuths : \A m \in Tracked(b) : WindowInside(b.states[m])}
<1>3. ASSUME NEW s \in SUBSET Models, s # {}, g[s \ {FoldFrom(s)}] \in G
      PROVE  g[s] \in G
  <2> DEFINE m == FoldFrom(s)
             b == g[s \ {m}]
             r == records.states[m]
             x == mergeModelState(State(b, m), m \in Tracked(b), r)
             d == [b EXCEPT !.states[m] = x]
  <2>1. m \in Models /\ b \in SoundAuths /\ g[s] = RestoredModel(b, m, r)
        /\ \A o \in Tracked(b) : WindowInside(b.states[o])
    BY <1>2, <1>3
  <2>2. r \in SoundRecords \cup {Absent}
    BY <2>1 DEF SoundFiles
  <2>3. CASE ~Restorable(r)
    BY <1>3, <2>1, <2>3 DEF RestoredModel
  <2>4. CASE Restorable(r)
    <3>1. r \in SoundRecords /\ r.retry > now /\ WindowInside(r)
      BY <2>1, <2>2, <2>4 DEF Restorable
    <3>2. State(b, m) \in SoundCells /\ WindowInside(State(b, m))
      <4>1. State(b, m) \in SoundCells
        BY <2>1, SoundAuthFacts
      <4>2. CASE m \in Tracked(b)
        BY <2>1, <4>1, <4>2 DEF State, Tracked
      <4>3. CASE m \notin Tracked(b)
        BY <2>1, <4>1, <4>3, CleanWithin DEF State, Tracked
      <4> QED BY <4>2, <4>3
    <3>3. x \in SoundCells /\ Completed(r) = r /\ WindowInside(x)
      BY <3>1, <3>2, MergeFacts, WithinMerged
    <3> HIDE DEF x, b, r, m
    <3>4. /\ d \in SoundAuths /\ Tracked(d) = Tracked(b) \cup {m}
          /\ d.states = [b.states EXCEPT ![m] = x]
          /\ b.states \in [Models -> SoundCells \cup {Absent}]
      <4>1. b.states \in [Models -> SoundCells \cup {Absent}]
        BY <2>1 DEF SoundAuths
      <4> QED BY <2>1, <3>3, <4>1, WithState
    <3>5. g[s] = updateAggregatedAvailability(d)
      BY <2>1, <2>4, <3>3 DEF RestoredModel, restoreModel, x
    <3> HIDE DEF d
    <3>6. \A o \in Tracked(d) : WindowInside(d.states[o])
      BY <2>1, <3>3, <3>4 DEF Tracked
    <3>7. AggregatedAs(g[s], d)
      BY <3>4, <3>5, AggregatedFacts
    <3>8. \A o \in Tracked(g[s]) : WindowInside(g[s].states[o])
      BY <3>4, <3>6, <3>7, WithinAggregated
    <3> QED BY <3>7, <3>8 DEF AggregatedAs
  <2> QED BY <2>3, <2>4
<1>4. g[{}] \in G
  BY <1>2
<1> HIDE DEF G
<1>5. g[Models] \in G
  <2>1. \A s \in SUBSET Models : g[s] \in G
    BY <1>3, <1>4, ModelsAssumption, FoldKeeps
  <2> QED BY <2>1
<1> DEFINE b == g[Models]
           d == restoreCredential(b, Completed(records.cell))
<1>6. b \in SoundAuths /\ \A m \in Tracked(b) : WindowInside(b.states[m])
  BY <1>5 DEF G
<1>7. d.states = b.states
  BY <1>6 DEF restoreCredential, SoundAuths
<1> HIDE DEF d, b
<1>8. \A m \in Tracked(d) : WindowInside(d.states[m])
  BY <1>6, <1>7 DEF Tracked
<1> QED BY <1>2, <1>6, <1>8 DEF d, b

LEMMA WithinPreserved ==
  ASSUME ~TransientDisabled
  PROVE  CooldownInv /\ WithinInv /\ ~coolingOff /\ [Next]_vars => WithinInv'
<1> SUFFICES ASSUME CooldownInv, WithinInv, ~coolingOff, [Next]_vars PROVE WithinInv'
  OBVIOUS
<1> DEFINE Kept(a) == \A m \in Tracked(a) : WindowInside(a.states[m])
           KeptFile(g) == \A m \in Models : g.states[m] # Absent => WindowInside(g.states[m])
<1>1. /\ now \in 1..MaxTime /\ auth \in SoundAuths /\ file \in SoundFiles
      /\ loaded \in SoundFiles /\ Kept(auth) /\ KeptFile(file) /\ KeptFile(loaded)
  BY DEF CooldownInv, WithinInv
<1>2. ASSUME now' = now, Kept(auth'), KeptFile(file'), KeptFile(loaded')
      PROVE  WithinInv'
  BY <1>1, <1>2 DEF WithinInv, WindowInside, Tracked
<1>3. KeptFile(cooldownStateRecords(auth))
  <2> SUFFICES ASSUME NEW m \in Models, cooldownStateRecords(auth).states[m] # Absent
               PROVE  WindowInside(cooldownStateRecords(auth).states[m])
    OBVIOUS
  <2> DEFINE c == State(auth, m)
  <2>1. cooldownStateRecords(auth).states[m] = Record(c)
    BY DEF cooldownStateRecords
  <2>2. Record(c).quota = c.quota /\ Record(c).retry = c.retry
    BY <2>1 DEF Record
  <2>3. WindowInside(c)
    BY <1>1, CleanWithin DEF State, Tracked
  <2> HIDE DEF c
  <2> QED BY <2>1, <2>2, <2>3 DEF WindowInside
<1>4. ASSUME NEW a \in SoundAuths, Kept(a) PROVE Kept(updateAggregatedAvailability(a))
  BY <1>1, <1>4, AggregatedFacts, WithinAggregated
<1>5. ASSUME NEW m \in Models, Success(m) PROVE Kept(auth')
  <2> DEFINE a == [auth EXCEPT !.states[m] = CleanCell]
             b == updateAggregatedAvailability(a)
             c == [b EXCEPT !.cell.err = "none", !.cell.failed = FALSE]
  <2>1. /\ a \in SoundAuths /\ Tracked(a) = Tracked(auth) \cup {m}
        /\ a.states = [auth.states EXCEPT ![m] = CleanCell]
        /\ auth.states \in [Models -> SoundCells \cup {Absent}]
    BY <1>1, CleanIsSound, WithState DEF SoundAuths
  <2>2. SuccessResult(m) \in {auth, b, c}
    BY DEF SuccessResult
  <2> HIDE DEF a
  <2>3. Kept(a)
    BY <1>1, <2>1, CleanWithin DEF Tracked
  <2>4. Kept(b) /\ b \in SoundAuths
    BY <1>1, <1>4, <2>1, <2>3, AggregatedFacts DEF AggregatedAs
  <2> HIDE DEF b
  <2>5. c.states = b.states
    BY <2>4, Forgiven
  <2> HIDE DEF c
  <2>6. Kept(c)
    BY <2>4, <2>5 DEF Tracked
  <2>7. auth' = SuccessResult(m)
    BY <1>5, SuccessFacts DEF Outcome
  <2> HIDE DEF Kept
  <2> QED BY <1>1, <2>2, <2>4, <2>6, <2>7
<1>6. ASSUME NEW m \in Models, NEW f \in Failures, Failure(m, f) PROVE Kept(auth')
  <2> DEFINE r == FailureResult(m, f)
  <2>1. r \in SoundAuths /\ Kept(r)
    BY <1>1, FailureResultFacts, WithinFailure DEF FailedAs, CooldownInv
  <2>2. Outcome(updateAggregatedAvailability(r))
    BY <1>6, FailureIs
  <2> HIDE DEF r
  <2>3. Kept(updateAggregatedAvailability(r))
    BY <1>4, <2>1
  <2> QED BY <2>2, <2>3 DEF Outcome
<1>7. ASSUME auth'.states = auth.states PROVE Kept(auth')
  BY <1>1, <1>7 DEF Tracked
<1>8. CASE SuccessWithoutModel
  <2>1. auth' = auth \/ auth' = [auth EXCEPT !.cell = CleanCell]
    BY <1>8 DEF SuccessWithoutModel, Outcome
  <2>2. auth'.states = auth.states
    BY <1>1, <2>1 DEF SoundAuths
  <2> QED BY <1>1, <1>2, <1>7, <1>8, <2>2 DEF SuccessWithoutModel, Outcome
<1>9. ASSUME NEW f \in Failures, FailureWithoutModel(f) PROVE WithinInv'
  <2>1. auth' = [auth EXCEPT !.cell = CellFailure(f)]
    BY <1>9, CellFailureFacts DEF Outcome
  <2>2. auth'.states = auth.states
    BY <1>1, <2>1 DEF SoundAuths
  <2> QED BY <1>1, <1>2, <1>7, <1>9, <2>2 DEF FailureWithoutModel, Outcome
<1>10. CASE ResetQuota
  <2>1. ASSUME NEW m \in Tracked(auth') PROVE WindowInside(auth'.states[m])
    <3>1. auth'.states[m] = State(auth', m) /\ m \in Models
      BY DEF State, Tracked
    <3>2. State(auth', m).quota = CleanQuota
      BY <1>10, <3>1, ResetQuotas
    <3>3. CleanQuota.recover = 0 /\ now \in Nat /\ now' = now
      BY <1>1, <1>10, Durations, SMTT(30) DEF CleanQuota, Zero, ResetQuota, Outcome
    <3>4. auth'.states[m].quota.recover = 0
      BY <3>1, <3>2, <3>3
    <3> QED BY <3>3, <3>4 DEF WindowInside
  <2> QED BY <1>1, <1>2, <1>10, <2>1 DEF ResetQuota, Outcome
<1>11. CASE persistCooldownStates
  BY <1>1, <1>2, <1>3, <1>11 DEF persistCooldownStates
<1>12. ASSUME NEW off \in BOOLEAN, StoreConfig(off) PROVE WithinInv'
  BY <1>1, <1>2, <1>7, <1>12 DEF StoreConfig
<1>13. CASE clearDisabledCooldownStates \/ ApplyConfigWithCooldownStateStore \/ LoadRecords
  <2>1. /\ now' = now /\ auth' = auth /\ file' \in {file, cooldownStateRecords(auth)}
        /\ loaded' \in {loaded, file}
    BY <1>13 DEF clearDisabledCooldownStates, ApplyConfigWithCooldownStateStore, LoadRecords
  <2> HIDE DEF Kept, KeptFile
  <2> QED BY <1>1, <1>2, <1>3, <2>1
<1>20. CASE MergeRecords
  <2>1. Kept(auth')
    BY <1>1, <1>20, WithinRestored DEF MergeRecords
  <2>2. KeptFile(loaded')
    BY <1>20 DEF MergeRecords, NoRecords
  <2> QED BY <1>1, <1>2, <1>20, <2>1, <2>2 DEF MergeRecords
<1>14. CASE Crash
  <2>1. Kept(auth') /\ KeptFile(loaded')
    BY <1>14, FreshSound DEF Crash, NoRecords
  <2> QED BY <1>1, <1>2, <1>14, <2>1 DEF Crash
<1>15. CASE Restart
  <2>1. Kept(auth')
    BY <1>1, <1>15, FreshSound, WithinRestored DEF Restart
  <2> QED BY <1>1, <1>2, <1>15, <2>1 DEF Restart
<1>16. CASE Tick
  <2>1. now' = now + 1 /\ UNCHANGED <<auth, file, loaded>>
    BY <1>16 DEF Tick
  <2>2. ASSUME NEW c \in SoundCells \cup SoundRecords, WindowInside(c) PROVE WindowInside(c)'
    <3>1. c.quota \in Quota
      BY CellType DEF SoundCells, SoundRecords, RecordSet
    <3>2. c.quota.recover \in 0..Horizon
      BY <3>1, QuotaType
    <3> QED BY <1>1, <2>1, <2>2, <3>2, Durations DEF WindowInside
  <2>3. ASSUME NEW m \in Tracked(auth) PROVE WindowInside(auth.states[m])'
    <3>1. auth.states[m] \in SoundCells
      BY <1>1, SoundAuthFacts
    <3> QED BY <1>1, <2>1, <2>2, <3>1 DEF WindowInside
  <2>4. ASSUME NEW m \in Models, file.states[m] # Absent PROVE WindowInside(file.states[m])'
    <3>1. file.states[m] \in SoundRecords
      BY <1>1, <2>4 DEF SoundFiles
    <3> QED BY <1>1, <2>1, <2>2, <2>4, <3>1 DEF WindowInside
  <2>5. ASSUME NEW m \in Models, loaded.states[m] # Absent PROVE WindowInside(loaded.states[m])'
    <3>1. loaded.states[m] \in SoundRecords
      BY <1>1, <2>5 DEF SoundFiles
    <3> QED BY <1>1, <2>1, <2>2, <2>5, <3>1 DEF WindowInside
  <2> QED BY <1>1, <2>1, <2>3, <2>4, <2>5 DEF WithinInv, Tracked
<1>17. CASE UNCHANGED vars
  BY <1>1, <1>2, <1>7, <1>17 DEF vars
<1> HIDE DEF Kept, KeptFile
<1>18. \A m \in Models : Success(m) => WithinInv'
  BY <1>1, <1>2, <1>5 DEF Success, Outcome
<1>19. ASSUME NEW m \in Models, NEW f \in Failures, Failure(m, f) PROVE WithinInv'
  <2>1. Outcome(updateAggregatedAvailability(FailureResult(m, f)))
    BY <1>19, FailureIs
  <2> QED BY <1>1, <1>2, <1>6, <1>19, <2>1 DEF Outcome
<1> QED BY <1>8, <1>9, <1>10, <1>11, <1>12, <1>13, <1>14, <1>15, <1>16, <1>17, <1>18, <1>19,
          <1>20 DEF Next

\* Whatever mix of deadlines, quota windows and credential-wide quotas is in
\* force, a further failure of one model never makes any model selectable at
\* an instant at which it was blocked. It is a theorem of a credential whose
\* outcomes name a model, under configurations with transient cooldowns that
\* never disable cooling, whatever is reloaded and restored: with cooling
\* disabled a failure clears a deadline and keeps its window, which a forced
\* Cloudflare challenge may then shorten.
THEOREM FailuresNeverFree ==
  ASSUME ~ModelLess, ~TransientDisabled
  PROVE  Spec /\ []~coolingOff => FailureNeverFrees
<1>1. CooldownInv /\ BackedInv /\ WithinInv /\ ~coolingOff =>
        [(/\ results' > results /\ ~Refused(auth)
          /\ \E o \in Models : ~(BlockedTimes(o) \subseteq BlockedTimes(o)'))
           => ~\E m \in Models, f \in Failures : Cooled(f) /\ Failure(m, f)]_vars
  <2> SUFFICES ASSUME CooldownInv, Backed(auth), WithinInv, ~coolingOff,
                      ~Refused(auth),
                      NEW o \in Models, NEW m \in Models, NEW f \in Failures, Failure(m, f)
               PROVE  BlockedTimes(o) \subseteq BlockedTimes(o)'
    BY DEF BackedInv
  <2> SUFFICES ASSUME NEW t \in BlockedTimes(o) PROVE t \in BlockedTimes(o)'
    OBVIOUS
  <2> DEFINE r == FailureResult(m, f)
  <2>1. t \in now..Horizon /\ isAuthBlockedForModel(auth, LastingToken, o, t) # Zero
    BY DEF BlockedTimes
  <2>2. /\ now' = now /\ auth' \in SoundAuths /\ t \in Nat /\ FailedAs(r, m, f)
        /\ Held(auth', o, t) <=> \/ CredentialQuotaOpen(r, t)
                                 \/ o \in Tracked(r) /\ Blocks(r.states[o], t)
    BY <2>1, AfterFailure
  <2>3. /\ now \in 1..MaxTime /\ now \in Nat /\ t >= now /\ auth \in SoundAuths
        /\ auth.cell \in SoundCells
    BY <2>1, <2>2, SoundAuthFacts, Durations DEF CooldownInv
  <2>4. /\ auth.cell.retry \in Nat /\ auth.cell.quota.recover \in Nat
        /\ SoundQuota(auth.cell.quota)
    BY <2>3, Deadlines
  <2>5. Held(auth, o, t)
    BY <2>1, <2>2, <2>3, BlockedWhen
  <2>6. \A i \in Tracked(auth) : Blocks(auth.states[i], t) => Blocks(r.states[i], t)
    BY <2>2, <2>3, WithinFailure
  <2> HIDE DEF r
  <2>7. r.cell.quota.recover \in Nat /\ Tracked(auth) \subseteq Tracked(r)
    BY <2>2, <2>3, SoundAuthFacts, Deadlines DEF FailedAs
  <2>8. ASSUME CredentialQuotaOpen(auth, t) PROVE CredentialQuotaOpen(r, t)
    <3>1. CASE Spreads(f)
      BY <2>2, <2>4, <2>7, <2>8, <3>1 DEF FailedAs, CredentialQuotaOpen
    <3>2. CASE ~Spreads(f)
      BY <2>2, <2>8, <3>2 DEF FailedAs, CredentialQuotaOpen
    <3> QED BY <3>1, <3>2
  <2>9. ASSUME Tracked(auth) = {}, Blocks(auth.cell, t) PROVE CredentialQuotaOpen(auth, t)
    <3>1. CASE CredentialScoped(auth.cell.quota)
      <4>1. auth.cell.retry <= auth.cell.quota.recover
        BY <3>1 DEF Backed
      <4>2. auth.cell.quota.recover > t
        BY <2>2, <2>4, <2>9, <4>1 DEF Blocks
      <4> QED BY <3>1, <4>2 DEF CredentialQuotaOpen, CredentialScoped
    <3>2. CASE ~CredentialScoped(auth.cell.quota)
      <4>1. ~auth.cell.unavailable /\ ~auth.cell.quota.exceeded
        BY <2>9, <3>2 DEF Backed
      <4>2. auth.cell.quota.recover = 0
        BY <2>4, <4>1 DEF SoundQuota, Zero
      <4> QED BY <2>2, <2>9, <4>1, <4>2 DEF Blocks
    <3> QED BY <3>1, <3>2
  <2>10. Held(auth', o, t)
    BY <2>2, <2>5, <2>6, <2>7, <2>8, <2>9, Zenon DEF Held
  <2>11. isAuthBlockedForModel(auth', LastingToken, o, t) # Zero
    <3>1. t <= Horizon
      BY <2>1, <2>3, Durations
    <3> QED BY <2>2, <2>10, <3>1, BlockedWhen
  <2> QED BY <2>1, <2>2, <2>11 DEF BlockedTimes
<1>2. Init => WithinInv
  BY FreshSound DEF Init, WithinInv, NoRecords
<1>3. CooldownInv /\ WithinInv /\ ~coolingOff /\ [Next]_vars => WithinInv'
  BY WithinPreserved
<1> QED BY <1>1, <1>2, <1>3, InvHolds, BackedHolds, PTL DEF Spec, FailureNeverFrees

-----------------------------------------------------------------------------
\* What a restore makes of a credential.

\* The records of the models are merged one by one, each once, into the
\* credential; then its own record replaces its cell.
LEMMA RestoreKeeps ==
  ASSUME now \in 1..MaxTime, NEW a \in SoundAuths, NEW records \in SoundFiles,
         NEW G \in SUBSET ((SUBSET Models) \X SoundAuths), <<{}, a>> \in G,
         \A s \in SUBSET Models, m \in Models, b \in SoundAuths :
           m \notin s /\ <<s, b>> \in G
             => <<s \cup {m}, RestoredModel(b, m, records.states[m])>> \in G
  PROVE  \E b \in SoundAuths :
           /\ <<Models, b>> \in G
           /\ RestoreCooldownStates(a, records) =
                IF Restorable(records.cell) THEN restoreCredential(b, Completed(records.cell))
                ELSE b
<1>1. PICK g : RestoresBy(g, a, records)
  BY RestoreSteps
<1>2. /\ g \in [SUBSET Models -> SoundAuths] /\ g[{}] = a
      /\ \A s \in SUBSET Models : s # {} =>
           /\ FoldFrom(s) \in s
           /\ g[s] = RestoredModel(g[s \ {FoldFrom(s)}], FoldFrom(s),
                                   records.states[FoldFrom(s)])
      /\ RestoreCooldownStates(a, records) =
           IF Restorable(records.cell)
           THEN restoreCredential(g[Models], Completed(records.cell)) ELSE g[Models]
  BY <1>1, Zenon DEF RestoresBy
<1> DEFINE h == [s \in SUBSET Models |-> <<s, g[s]>>]
<1>3. h[{}] \in G
  BY <1>2
<1>4. ASSUME NEW s \in SUBSET Models, s # {}, h[s \ {FoldFrom(s)}] \in G
      PROVE  h[s] \in G
  <2> DEFINE m == FoldFrom(s)
             u == s \ {m}
  <2>1. m \in Models /\ u \in SUBSET Models /\ m \notin u /\ s = u \cup {m}
        /\ g[u] \in SoundAuths
    BY <1>2, <1>4
  <2>2. <<u, g[u]>> \in G /\ g[s] = RestoredModel(g[u], m, records.states[m])
    BY <1>2, <1>4, <2>1
  <2> HIDE DEF m, u
  <2>3. <<u \cup {m}, RestoredModel(g[u], m, records.states[m])>> \in G
    BY <2>1, <2>2
  <2> QED BY <2>1, <2>2, <2>3
<1> HIDE DEF h
<1>5. h[Models] \in G
  <2>1. \A s \in SUBSET Models : h[s] \in G
    BY <1>3, <1>4, ModelsAssumption, FoldKeeps
  <2> QED BY <2>1
<1> QED BY <1>2, <1>5 DEF h

\* A record that is restorable, and the credential with it merged: the other
\* models and the credential's own cell are as before.
MergedAs(d, b, m, r) ==
  /\ d \in SoundAuths /\ d.cell = b.cell /\ Tracked(d) = Tracked(b) \cup {m}
  /\ d.states[m] = mergeModelState(State(b, m), m \in Tracked(b), r)
  /\ \A o \in Models \ {m} : d.states[o] = b.states[o]

LEMMA RestoredModelAs ==
  ASSUME now \in 1..MaxTime, NEW b \in SoundAuths, NEW m \in Models,
         NEW r \in SoundRecords \cup {Absent}, Restorable(r)
  PROVE  /\ r \in SoundRecords /\ r.retry > now
         /\ \E d \in SoundAuths : /\ MergedAs(d, b, m, r)
                                  /\ RestoredModel(b, m, r) = updateAggregatedAvailability(d)
                                  /\ AggregatedAs(RestoredModel(b, m, r), d)
<1> DEFINE x == mergeModelState(State(b, m), m \in Tracked(b), r)
           d == [b EXCEPT !.states[m] = x]
<1>1. r \in SoundRecords /\ r.retry > now
  BY DEF Restorable
<1>2. x \in SoundCells /\ Completed(r) = r
  BY <1>1, SoundAuthFacts, MergeFacts
<1> HIDE DEF x
<1>3. RestoredModel(b, m, r) = updateAggregatedAvailability(d)
  BY <1>2 DEF RestoredModel, restoreModel, x
<1>4. /\ d \in SoundAuths /\ d.cell = b.cell /\ Tracked(d) = Tracked(b) \cup {m}
      /\ d.states = [b.states EXCEPT ![m] = x]
      /\ b.states \in [Models -> SoundCells \cup {Absent}]
  <2>1. b.states \in [Models -> SoundCells \cup {Absent}]
    BY DEF SoundAuths
  <2> QED BY <1>2, <2>1, WithState
<1> HIDE DEF d
<1>5. MergedAs(d, b, m, r)
  BY <1>4 DEF MergedAs, x
<1>6. AggregatedAs(updateAggregatedAvailability(d), d)
  BY <1>4, AggregatedFacts
<1> QED BY <1>1, <1>3, <1>4, <1>5, <1>6

LEMMA RestoredCredentialAs ==
  ASSUME now \in 1..MaxTime, NEW b \in SoundAuths, NEW r \in SoundRecords \cup {Absent},
         Restorable(r), NEW d, d = restoreCredential(b, Completed(r))
  PROVE  /\ r \in SoundRecords /\ r.retry > now /\ r.retry \in Nat /\ r.quota.recover \in Nat
         /\ SoundQuota(r.quota)
         /\ d \in SoundAuths /\ Tracked(d) = Tracked(b) /\ d.states = b.states
         /\ d.cell.unavailable /\ d.cell.failed /\ d.cell.err = r.err
         /\ d.cell.retry = r.retry /\ d.cell.quota = r.quota
<1>1. r \in SoundRecords /\ r.retry > now
  BY DEF Restorable
<1>2. r.quota \in Quota /\ r.retry \in 0..Horizon /\ SoundQuota(r.quota)
  BY <1>1 DEF SoundRecords, RecordSet
<1>3. r.quota.recover \in 0..Horizon
  BY <1>2, QuotaType
<1>4. Completed(r) = r
  BY <1>1, CleanIsSound, MergeFacts
<1>5. d \in SoundAuths
  BY RestoreCredentialFacts
<1>6. /\ d.states = b.states
      /\ d.cell = [unavailable |-> TRUE, failed |-> TRUE, err |-> r.err,
                   retry |-> r.retry, quota |-> r.quota]
  BY <1>4 DEF restoreCredential, SoundAuths
<1>7. Tracked(d) = Tracked(b)
  BY <1>6 DEF Tracked
<1> QED BY <1>1, <1>2, <1>3, <1>5, <1>6, <1>7, Durations

\* A merged cell is unavailable for the later of the deadlines.
LEMMA MergedCell ==
  ASSUME now \in 1..MaxTime, NEW c \in SoundCells, NEW existed, NEW r \in SoundRecords
  PROVE  LET x == mergeModelState(c, existed, r)
         IN  /\ x.unavailable /\ x.failed
             /\ x.retry \in {c.retry, r.retry} /\ x.retry >= c.retry /\ x.retry >= r.retry
             /\ x.quota.recover \in {c.quota.recover, r.quota.recover}
             /\ x.quota.recover >= c.quota.recover /\ x.quota.recover >= r.quota.recover
             /\ r.retry \in Nat /\ r.quota.recover \in Nat
<1> DEFINE x == mergeModelState(c, existed, r)
<1>1. /\ x.unavailable /\ x.failed /\ x.retry = MaxOf({c.retry, r.retry})
      /\ x.quota.recover = MaxOf({c.quota.recover, r.quota.recover})
  BY DEF mergeModelState
<1>2. c.retry \in Nat /\ c.quota.recover \in Nat
  BY Deadlines
<1>3. r.retry \in Nat /\ r.quota.recover \in Nat
  <2>1. r.quota \in Quota /\ r.retry \in 0..Horizon
    BY DEF SoundRecords, RecordSet
  <2>2. r.quota.recover \in 0..Horizon
    BY <2>1, QuotaType
  <2> QED BY <2>1, <2>2, Durations
<1> HIDE DEF x
<1>4. x.retry \in {c.retry, r.retry} /\ x.retry >= c.retry /\ x.retry >= r.retry
  BY <1>1, <1>2, <1>3, LaterOf
<1>5. /\ x.quota.recover \in {c.quota.recover, r.quota.recover}
      /\ x.quota.recover >= c.quota.recover /\ x.quota.recover >= r.quota.recover
  BY <1>1, <1>2, <1>3, LaterOf
<1> QED BY <1>1, <1>3, <1>4, <1>5 DEF x

-----------------------------------------------------------------------------
\* The cause of a block. A credential with an error has failed; and where every
\* outcome names a model, one whose error is unauthorized is unavailable as soon
\* as its models or its quota make it so, since every outcome aggregates.
InForce(c) == c.unavailable /\ c.retry > now
Ripe(a) == \/ CredentialQuotaOpen(a, now)
           \/ Tracked(a) # {} /\ \A m \in Tracked(a) : InForce(a.states[m])
Caused(a) == /\ a.cell.err # "none" => a.cell.failed
             /\ ~ModelLess /\ a.cell.err = "unauthorized" /\ Ripe(a) => a.cell.unavailable
CauseInv == Caused(auth)

\* The aggregate makes the credential unavailable when it should, and only then.
LEMMA AggregatedUnavailable ==
  ASSUME now \in 1..MaxTime, NEW a \in SoundAuths
  PROVE  updateAggregatedAvailability(a).cell.unavailable <=> Ripe(a)
<1> DEFINE b == updateAggregatedAvailability(a)
<1>1. a.cell \in Cell /\ SoundQuota(a.cell.quota)
  BY SoundAuthFacts DEF Sound
<1>2. CASE CredentialQuotaOpen(a, now)
  <2>1. a.cell.quota.recover \in Nat /\ now \in Nat
    BY SoundAuthFacts, Deadlines
  <2>2. a.cell.quota.exceeded
    BY <1>1, <1>2, <2>1 DEF CredentialQuotaOpen, SoundQuota, Zero
  <2>3. b = [a EXCEPT !.cell.unavailable = TRUE]
    BY <1>2, <2>2 DEF updateAggregatedAvailability
  <2>4. b = [a EXCEPT !.cell = [a.cell EXCEPT !.unavailable = TRUE]]
    BY <2>3 DEF SoundAuths
  <2>5. b.cell.unavailable
    BY <1>1, <2>4 DEF SoundAuths, Cell
  <2> QED BY <1>2, <2>5 DEF Ripe
<1>3. CASE ~CredentialQuotaOpen(a, now)
  <2>1. b.cell.unavailable => Ripe(a)
    <3>1. /\ Tracked(a) = {} => ~b.cell.unavailable
          /\ b.cell.unavailable =>
               \A m \in Tracked(a) : a.states[m].unavailable /\ a.states[m].retry > now
      BY <1>3, AggregatedCell
    <3> QED BY <3>1 DEF Ripe, InForce
  <2>2. ASSUME Ripe(a) PROVE b.cell.unavailable
    <3> DEFINE tracked == {a.states[m] : m \in Tracked(a)}
               everyModel == \A c \in tracked : c.unavailable /\ c.retry > now
               retry == b.cell.retry
               quota == b.cell.quota
               states == b.states
    <3>1. tracked # {} /\ everyModel
      BY <1>3, <2>2 DEF Ripe, InForce
    <3>2. \E r, q, ss : b = [a EXCEPT !.cell.unavailable = everyModel, !.cell.retry = r,
                                      !.cell.quota = q, !.states = ss]
      BY <1>3, <3>1, Zenon DEF updateAggregatedAvailability
    <3>3. PICK r, q, ss : b = [a EXCEPT !.cell.unavailable = everyModel, !.cell.retry = r,
                                        !.cell.quota = q, !.states = ss]
      BY <3>2
    <3> HIDE DEF everyModel, tracked, b
    <3> DEFINE c == [a.cell EXCEPT !.unavailable = everyModel, !.retry = r, !.quota = q]
    <3>4. b = [a EXCEPT !.cell = c, !.states = ss]
      BY <3>3 DEF SoundAuths
    <3>5. c.unavailable = everyModel
      BY <1>1 DEF Cell
    <3> HIDE DEF c
    <3>6. b.cell = c
      BY <3>4 DEF SoundAuths
    <3> QED BY <3>1, <3>5, <3>6 DEF b
  <2> QED BY <2>1, <2>2
<1> QED BY <1>2, <1>3

\* What has been aggregated is ripe only when it was before.
LEMMA AggregatedRipe ==
  ASSUME now \in 1..MaxTime, NEW a \in SoundAuths, NEW b, AggregatedAs(b, a), Ripe(b)
  PROVE  Ripe(a)
<1>1. now \in Nat
  BY Durations
<1>2. ASSUME CredentialQuotaOpen(b, now) PROVE Ripe(a)
  BY <1>1, <1>2 DEF AggregatedAs, Ripe
<1>3. ASSUME NEW m \in Tracked(a), InForce(b.states[m]) PROVE InForce(a.states[m])
  <2>1. a.states[m] \in SoundCells
    BY SoundAuthFacts
  <2>2. b.states[m] = a.states[m] \/ b.states[m] = Expire(a.states[m])
    BY DEF AggregatedAs
  <2>3. /\ Expire(a.states[m]).unavailable => a.states[m].unavailable
        /\ \/ Expire(a.states[m]).retry = a.states[m].retry
           \/ Expire(a.states[m]).retry = Zero /\ a.states[m].retry <= now
    BY <2>1, ExpireFacts
  <2> QED BY <1>1, <1>3, <2>2, <2>3 DEF InForce, Zero
<1>4. Tracked(b) = Tracked(a)
  BY DEF AggregatedAs
<1> QED BY <1>2, <1>3, <1>4 DEF Ripe

LEMMA AggregatedCaused ==
  ASSUME now \in 1..MaxTime, NEW a \in SoundAuths, a.cell.err # "none" => a.cell.failed
  PROVE  Caused(updateAggregatedAvailability(a))
<1> DEFINE b == updateAggregatedAvailability(a)
<1>1. AggregatedAs(b, a)
  BY AggregatedFacts
<1>2. b.cell.unavailable <=> Ripe(a)
  BY AggregatedUnavailable
<1> HIDE DEF b
<1>3. Ripe(b) => b.cell.unavailable
  BY <1>1, <1>2, AggregatedRipe
<1>4. b.cell.failed = a.cell.failed /\ b.cell.err = a.cell.err
  BY <1>1 DEF AggregatedAs
<1>5. Caused(b)
  BY <1>3, <1>4 DEF Caused
<1> QED BY <1>5 DEF b

\* Clearing, and forgetting the credential's error.
LEMMA ClearedCaused ==
  ASSUME now \in 1..MaxTime, NEW a \in SoundAuths, a.cell.err # "none" => a.cell.failed
  PROVE  Caused(clearCooldownStateForAuth(a))
<1> DEFINE Dirty(c) == \/ c.unavailable \/ c.retry # Zero
                       \/ c.quota.exceeded \/ c.quota.recover # Zero
           Cleared(c) == IF Dirty(c) THEN [c EXCEPT !.unavailable = FALSE, !.retry = Zero,
                                                    !.quota = CleanQuota] ELSE c
           states == [i \in Models |-> IF a.states[i] = Absent THEN Absent
                                       ELSE Cleared(a.states[i])]
           b == [cell |-> Cleared(a.cell), states |-> states]
<1>1. ASSUME NEW c \in SoundCells
      PROVE  LET d == Cleared(c)
             IN  d \in SoundCells /\ d.quota.recover = 0 /\ d.err = c.err /\ d.failed = c.failed
  <2> DEFINE d == [c EXCEPT !.unavailable = FALSE, !.retry = Zero, !.quota = CleanQuota]
  <2>1. Zero \in 0..Horizon /\ CleanQuota \in Quota /\ c \in Cell /\ Zero = 0
    BY Durations, CleanIsSound DEF Zero, SoundCells
  <2>2. /\ d \in Cell /\ ~d.unavailable /\ d.quota = CleanQuota
        /\ d.err = c.err /\ d.failed = c.failed
    BY <2>1 DEF Cell
  <2>3. SoundQuota(CleanQuota) /\ CleanQuota.recover = 0
    BY DEF SoundQuota, CleanQuota, Zero
  <2>4. d \in SoundCells
    BY <2>2, <2>3 DEF SoundCells, Sound
  <2> HIDE DEF d
  <2>5. CASE Dirty(c)
    BY <2>2, <2>3, <2>4, <2>5 DEF d
  <2>6. CASE ~Dirty(c)
    BY <2>1, <2>6
  <2> QED BY <2>5, <2>6
<1>2. clearCooldownStateForAuth(a) =
         IF Tracked(a) = {} THEN b ELSE updateAggregatedAvailability(b)
  BY DEF clearCooldownStateForAuth
<1> HIDE DEF Cleared
<1>3. a.cell \in SoundCells /\ a.states \in [Models -> SoundCells \cup {Absent}]
  BY DEF SoundAuths
<1>4. b \in SoundAuths /\ b.cell = Cleared(a.cell) /\ b.states = states
  BY <1>1, <1>3 DEF SoundAuths
<1>5. b.cell.err # "none" => b.cell.failed
  BY <1>1, <1>3, <1>4
<1>6. b.cell.quota.recover = 0
  BY <1>1, <1>3, <1>4
<1>7. Tracked(a) = {} => Tracked(b) = {}
  BY <1>4 DEF Tracked
<1> HIDE DEF b
<1>8. ~CredentialQuotaOpen(b, now)
  BY <1>6, Durations DEF CredentialQuotaOpen
<1>9. Tracked(a) = {} => Caused(b)
  BY <1>5, <1>7, <1>8 DEF Caused, Ripe
<1>10. Caused(updateAggregatedAvailability(b))
  BY <1>4, <1>5, AggregatedCaused
<1> QED BY <1>2, <1>9, <1>10

LEMMA ForgivenCaused ==
  ASSUME NEW a \in SoundAuths
  PROVE  Caused([a EXCEPT !.cell.err = "none", !.cell.failed = FALSE])
<1> DEFINE d == [a EXCEPT !.cell.err = "none", !.cell.failed = FALSE]
<1>1. d.cell.err = "none"
  <2>1. d = [a EXCEPT !.cell = [a.cell EXCEPT !.err = "none", !.failed = FALSE]]
    BY DEF SoundAuths
  <2>2. a.cell \in Cell
    BY SoundAuthFacts
  <2> QED BY <2>1, <2>2 DEF SoundAuths, Cell
<1> HIDE DEF d
<1>2. Caused(d)
  BY <1>1 DEF Caused
<1> QED BY <1>2 DEF d

\* A restored credential is unavailable when its record is restored.
LEMMA RestoredCaused ==
  ASSUME now \in 1..MaxTime, NEW a \in SoundAuths, Caused(a), NEW records \in SoundFiles
  PROVE  Caused(RestoreCooldownStates(a, records))
<1> DEFINE G == {e \in (SUBSET Models) \X SoundAuths : Caused(e[2])}
           After(b) == IF Restorable(records.cell)
                       THEN restoreCredential(b, Completed(records.cell)) ELSE b
<1>1. ASSUME NEW s \in SUBSET Models, NEW m \in Models, NEW b \in SoundAuths, <<s, b>> \in G
      PROVE  <<s \cup {m}, RestoredModel(b, m, records.states[m])>> \in G
  <2> DEFINE r == records.states[m]
  <2>1. r \in SoundRecords \cup {Absent} /\ Caused(b)
    BY <1>1 DEF SoundFiles
  <2>2. CASE ~Restorable(r)
    BY <1>1, <2>1, <2>2 DEF RestoredModel
  <2>3. CASE Restorable(r)
    <3> HIDE DEF r
    <3>1. PICK d \in SoundAuths :
            /\ MergedAs(d, b, m, r)
            /\ RestoredModel(b, m, r) = updateAggregatedAvailability(d)
            /\ AggregatedAs(RestoredModel(b, m, r), d)
      BY <2>1, <2>3, RestoredModelAs
    <3>2. d.cell.err # "none" => d.cell.failed
      BY <2>1, <3>1 DEF MergedAs, Caused
    <3>3. Caused(RestoredModel(b, m, r)) /\ RestoredModel(b, m, r) \in SoundAuths
      BY <3>1, <3>2, AggregatedCaused DEF AggregatedAs
    <3> QED BY <3>3 DEF r
  <2> QED BY <2>2, <2>3
<1>2. <<{}, a>> \in G /\ G \in SUBSET ((SUBSET Models) \X SoundAuths)
  OBVIOUS
<1> HIDE DEF G
<1>3. PICK b \in SoundAuths : <<Models, b>> \in G /\ RestoreCooldownStates(a, records) = After(b)
  <2>1. \E b \in SoundAuths : /\ <<Models, b>> \in G
                              /\ RestoreCooldownStates(a, records) =
                                   IF Restorable(records.cell)
                                   THEN restoreCredential(b, Completed(records.cell)) ELSE b
    BY <1>1, <1>2, RestoreKeeps
  <2> QED BY <2>1
<1>4. Caused(b)
  BY <1>3 DEF G
<1>5. CASE Restorable(records.cell)
  <2> DEFINE d == restoreCredential(b, Completed(records.cell))
  <2>1. records.cell \in SoundRecords \cup {Absent}
    BY DEF SoundFiles
  <2>2. d.cell.unavailable /\ d.cell.failed
    BY <1>5, <2>1, RestoredCredentialAs
  <2> HIDE DEF d
  <2>3. Caused(d)
    BY <2>2 DEF Caused
  <2> QED BY <1>3, <1>5, <2>3 DEF d
<1>6. CASE ~Restorable(records.cell)
  BY <1>3, <1>4, <1>6
<1> QED BY <1>5, <1>6

LEMMA ResetCaused ==
  ASSUME CooldownInv, CauseInv, ResetQuota
  PROVE  Caused(auth')
<1> DEFINE states == [o \in Models |-> IF auth.states[o] = Absent THEN Absent ELSE CleanCell]
           reset == [auth EXCEPT !.states = states]
           b == clearCooldownStateForAuth(reset)
           c == IF Tracked(b) = {} THEN b ELSE updateAggregatedAvailability(b)
           a == IF hasModelError(c) THEN c
                ELSE [c EXCEPT !.cell.err = "none", !.cell.failed = FALSE]
<1>1. now \in 1..MaxTime /\ auth \in SoundAuths /\ Caused(auth)
  BY DEF CooldownInv, CauseInv
<1>2. reset \in SoundAuths /\ reset.cell = auth.cell
  BY <1>1, CleanIsSound DEF SoundAuths
<1>3. auth' = a
  BY Zenon DEF ResetQuota, reset, b, c, Outcome
<1> HIDE DEF reset
<1>4. b \in SoundAuths /\ Caused(b)
  BY <1>1, <1>2, BackedCleared, ClearedCaused DEF Caused
<1> HIDE DEF b
<1>5. c \in SoundAuths /\ Caused(c)
  <2>1. updateAggregatedAvailability(b) \in SoundAuths
    BY <1>1, <1>4, AggregatedFacts DEF AggregatedAs
  <2>2. Caused(updateAggregatedAvailability(b))
    BY <1>1, <1>4, AggregatedCaused DEF Caused
  <2> QED BY <1>4, <2>1, <2>2
<1> HIDE DEF c
<1>6. Caused([c EXCEPT !.cell.err = "none", !.cell.failed = FALSE])
  BY <1>5, ForgivenCaused
<1> QED BY <1>3, <1>5, <1>6

LEMMA CausePreserved == CooldownInv /\ CauseInv /\ [Next]_vars => CauseInv'
<1> SUFFICES ASSUME CooldownInv, CauseInv, [Next]_vars PROVE CauseInv'
  OBVIOUS
<1>1. /\ now \in 1..MaxTime /\ now \in Nat /\ auth \in SoundAuths
      /\ file \in SoundFiles /\ loaded \in SoundFiles /\ Caused(auth)
      /\ (auth.cell.err # "none" => auth.cell.failed)
  BY Durations DEF CooldownInv, CauseInv, Caused
<1>2. ASSUME now' = now, Caused(auth') PROVE CauseInv'
  BY <1>2 DEF CauseInv, Caused, Ripe, InForce, CredentialQuotaOpen, Tracked
<1>3. Caused(FreshAuth)
  BY DEF Caused, FreshAuth, CleanCell
<1>4. ASSUME NEW a, Outcome(a), Caused(a) PROVE CauseInv'
  BY <1>2, <1>4 DEF Outcome
<1>5. ASSUME NEW m \in Models, Success(m) PROVE CauseInv'
  <2> DEFINE a == [auth EXCEPT !.states[m] = CleanCell]
             b == updateAggregatedAvailability(a)
             c == [b EXCEPT !.cell.err = "none", !.cell.failed = FALSE]
  <2>1. a \in SoundAuths /\ a.cell = auth.cell
    BY <1>1, CleanIsSound, WithState
  <2>2. SuccessResult(m) \in {auth, b, c}
    BY DEF SuccessResult
  <2> HIDE DEF a
  <2>3. b \in SoundAuths /\ Caused(b)
    BY <1>1, <2>1, AggregatedFacts, AggregatedCaused DEF AggregatedAs
  <2> HIDE DEF b
  <2>4. Caused(c)
    BY <2>3, ForgivenCaused
  <2> HIDE DEF c
  <2>5. Caused(SuccessResult(m))
    BY <1>1, <2>2, <2>3, <2>4
  <2> QED BY <1>4, <1>5, <2>5, SuccessFacts
<1>6. ASSUME NEW m \in Models, NEW f \in Failures, Failure(m, f) PROVE CauseInv'
  <2> DEFINE r == FailureResult(m, f)
  <2>1. r \in SoundAuths /\ r.cell.failed
    BY <1>1, FailureResultFacts DEF FailedAs, CooldownInv
  <2>2. Outcome(updateAggregatedAvailability(r))
    BY <1>6, FailureIs
  <2> HIDE DEF r
  <2>3. Caused(updateAggregatedAvailability(r))
    BY <1>1, <2>1, AggregatedCaused
  <2> QED BY <1>4, <2>2, <2>3
<1>7. CASE SuccessWithoutModel
  <2>1. ModelLess /\ (auth' = auth \/ auth' = [auth EXCEPT !.cell = CleanCell]) /\ now' = now
    BY <1>7 DEF SuccessWithoutModel, Outcome
  <2>2. CleanCell.err = "none"
    BY DEF CleanCell
  <2>3. auth'.cell = auth.cell \/ auth'.cell.err = "none"
    BY <1>1, <2>1, <2>2 DEF SoundAuths
  <2>4. Caused(auth')
    BY <1>1, <2>1, <2>3 DEF Caused
  <2> QED BY <1>2, <2>1, <2>4
<1>8. ASSUME NEW f \in Failures, FailureWithoutModel(f) PROVE CauseInv'
  <2>1. ModelLess /\ Outcome([auth EXCEPT !.cell = CellFailure(f)])
    BY <1>8, CellFailureFacts
  <2>2. [auth EXCEPT !.cell = CellFailure(f)].cell = CellFailure(f)
    BY <1>1 DEF SoundAuths
  <2>3. CellFailure(f).failed
    BY CellFailureFacts
  <2>4. Caused([auth EXCEPT !.cell = CellFailure(f)])
    BY <2>1, <2>2, <2>3 DEF Caused
  <2> QED BY <1>4, <2>1, <2>4
<1>9. CASE ResetQuota
  BY <1>4, <1>9, ResetCaused DEF ResetQuota, Outcome
<1>10. CASE clearDisabledCooldownStates
  BY <1>1, <1>2, <1>10, ClearedCaused DEF clearDisabledCooldownStates
<1>11. CASE MergeRecords
  BY <1>1, <1>2, <1>11, RestoredCaused DEF MergeRecords
<1>12. CASE Crash
  BY <1>2, <1>3, <1>12 DEF Crash
<1>13. CASE Restart
  BY <1>1, <1>2, <1>3, <1>13, FreshSound, RestoredCaused DEF Restart
<1>14. CASE Tick
  <2>1. now' = now + 1 /\ auth' = auth
    BY <1>14 DEF Tick
  <2>2. ASSUME CredentialQuotaOpen(auth, now') PROVE CredentialQuotaOpen(auth, now)
    <3>1. auth.cell.quota.recover \in Nat
      BY <1>1, SoundAuthFacts, Deadlines
    <3> QED BY <1>1, <2>1, <2>2, <3>1 DEF CredentialQuotaOpen
  <2>3. ASSUME NEW m \in Tracked(auth), auth.states[m].retry > now'
        PROVE  auth.states[m].retry > now
    <3>1. auth.states[m].retry \in Nat
      BY <1>1, SoundAuthFacts, Deadlines
    <3> QED BY <1>1, <2>1, <2>3, <3>1
  <2>4. Ripe(auth)' => Ripe(auth)
    BY <2>1, <2>2, <2>3 DEF Ripe, InForce, CredentialQuotaOpen, Tracked
  <2> QED BY <1>1, <2>1, <2>4 DEF CauseInv, Caused
<1>15. CASE UNCHANGED <<now, auth>>
  BY <1>1, <1>2, <1>15
<1>16. ASSUME \/ persistCooldownStates \/ \E off \in BOOLEAN : StoreConfig(off)
              \/ ApplyConfigWithCooldownStateStore \/ LoadRecords \/ UNCHANGED vars
       PROVE  UNCHANGED <<now, auth>>
  BY <1>16 DEF persistCooldownStates, StoreConfig, ApplyConfigWithCooldownStateStore,
     LoadRecords, vars
<1> QED BY <1>5, <1>6, <1>7, <1>8, <1>9, <1>10, <1>11, <1>12, <1>13, <1>14, <1>15, <1>16
        DEF Next

-----------------------------------------------------------------------------
\* What a reload restores into a credential that nothing has changed meanwhile.
\* The merges are of records that say what the states say: those in force stay
\* as they are, the others may only lose a deadline that has passed.
Unmoved(a, b) ==
  /\ Tracked(b) = Tracked(a) /\ (Tracked(a) = {} => b = a)
  /\ \A m \in Tracked(a) :
       /\ \A t \in Nat : t >= now => (Blocks(b.states[m], t) <=> Blocks(a.states[m], t))
       /\ InForce(b.states[m]) => InForce(a.states[m])
       /\ InForce(a.states[m]) => /\ InForce(b.states[m])
                                  /\ b.states[m].retry = a.states[m].retry
                                  /\ b.states[m].quota.recover = a.states[m].quota.recover
  /\ \A t \in Nat : t >= now => (CredentialQuotaOpen(b, t) <=> CredentialQuotaOpen(a, t))
  /\ b.cell.err = a.cell.err /\ b.cell.failed = a.cell.failed
  /\ b.cell.unavailable => a.cell.unavailable \/ Ripe(a)

LEMMA UnmovedByAggregate ==
  ASSUME now \in 1..MaxTime, NEW a \in SoundAuths, NEW d \in SoundAuths, Unmoved(a, d),
         Tracked(a) # {}
  PROVE  Unmoved(a, updateAggregatedAvailability(d))
<1> DEFINE e == updateAggregatedAvailability(d)
<1>1. AggregatedAs(e, d) /\ (e.cell.unavailable <=> Ripe(d)) /\ now \in Nat
  BY AggregatedFacts, AggregatedUnavailable, Durations
<1> HIDE DEF e
<1>2. Tracked(e) = Tracked(a) /\ Tracked(d) = Tracked(a)
  BY <1>1 DEF AggregatedAs, Unmoved
<1>3. ASSUME NEW m \in Tracked(a)
      PROVE  /\ \A t \in Nat : t >= now => (Blocks(e.states[m], t) <=> Blocks(a.states[m], t))
             /\ InForce(e.states[m]) => InForce(a.states[m])
             /\ InForce(a.states[m]) => /\ InForce(e.states[m])
                                        /\ e.states[m].retry = a.states[m].retry
                                        /\ e.states[m].quota.recover = a.states[m].quota.recover
  <2> DEFINE x == d.states[m]
  <2>1. x \in SoundCells /\ (e.states[m] = x \/ e.states[m] = Expire(x))
    BY <1>1, <1>2, SoundAuthFacts DEF AggregatedAs
  <2>2. /\ \A t \in Nat : t >= now => (Blocks(x, t) <=> Blocks(a.states[m], t))
        /\ InForce(x) => InForce(a.states[m])
        /\ InForce(a.states[m]) => /\ InForce(x) /\ x.retry = a.states[m].retry
                                   /\ x.quota.recover = a.states[m].quota.recover
    BY DEF Unmoved
  <2> HIDE DEF x
  <2>3. CASE e.states[m] = x
    BY <2>2, <2>3
  <2>4. CASE e.states[m] = Expire(x)
    <3>1. /\ Expire(x).unavailable => x.unavailable
          /\ Expire(x).retry = x.retry \/ (Expire(x).retry = Zero /\ x.retry <= now)
          /\ \A t \in Nat : t >= now => (Blocks(Expire(x), t) <=> Blocks(x, t))
      BY <2>1, ExpireFacts
    <3>2. InForce(x) => Expire(x) = x
      <4>1. x.retry \in Nat
        BY <2>1, Deadlines
      <4> QED BY <1>1, <4>1 DEF InForce, Expire
    <3>3. InForce(Expire(x)) => InForce(x)
      BY <1>1, <3>1 DEF InForce, Zero
    <3> QED BY <2>2, <2>4, <3>1, <3>2, <3>3
  <2> QED BY <2>1, <2>3, <2>4
<1>4. ASSUME NEW t \in Nat, t >= now
      PROVE  CredentialQuotaOpen(e, t) <=> CredentialQuotaOpen(a, t)
  <2>1. CredentialQuotaOpen(d, t) <=> CredentialQuotaOpen(a, t)
    BY <1>4 DEF Unmoved
  <2>2. CASE CredentialQuotaOpen(d, now)
    BY <1>1, <2>1, <2>2 DEF AggregatedAs, CredentialQuotaOpen
  <2>3. CASE ~CredentialQuotaOpen(d, now)
    <3>1. ~CredentialQuotaOpen(e, t)
      BY <1>1, <1>4, <2>3 DEF AggregatedAs
    <3>2. d.cell.quota.recover \in Nat
      BY SoundAuthFacts, Deadlines
    <3>3. ~CredentialQuotaOpen(d, t)
      BY <1>1, <1>4, <2>3, <3>2 DEF CredentialQuotaOpen
    <3> QED BY <2>1, <3>1, <3>3
  <2> QED BY <2>2, <2>3
<1>5. e.cell.unavailable => Ripe(a)
  <2>1. CredentialQuotaOpen(d, now) => CredentialQuotaOpen(a, now)
    BY <1>1 DEF Unmoved
  <2>2. \A m \in Tracked(a) : InForce(d.states[m]) => InForce(a.states[m])
    BY DEF Unmoved
  <2> QED BY <1>1, <1>2, <2>1, <2>2 DEF Ripe
<1>6. e.cell.err = a.cell.err /\ e.cell.failed = a.cell.failed
  BY <1>1 DEF AggregatedAs, Unmoved
<1>7. Unmoved(a, e)
  BY <1>2, <1>3, <1>4, <1>5, <1>6 DEF Unmoved
<1> QED BY <1>7 DEF e

\* One model: its record is of its own state.
LEMMA UnmovedByMerge ==
  ASSUME now \in 1..MaxTime, NEW a \in SoundAuths, NEW b \in SoundAuths, Unmoved(a, b),
         NEW m \in Tracked(a), InForce(a.states[m]),
         NEW r \in SoundRecords \cup {Absent}, Restorable(r),
         r.retry = a.states[m].retry, r.quota = a.states[m].quota
  PROVE  Unmoved(a, RestoredModel(b, m, r))
<1> DEFINE c == a.states[m]
           x == mergeModelState(b.states[m], TRUE, r)
<1>1. m \in Models /\ m \in Tracked(b) /\ State(b, m) = b.states[m] /\ c \in SoundCells
      /\ b.states[m] \in SoundCells /\ now \in Nat
  <2>1. m \in Models /\ m \in Tracked(b)
    BY DEF Unmoved, Tracked
  <2> QED BY <2>1, SoundAuthFacts, Durations DEF State, Tracked
<1>2. r \in SoundRecords
  BY RestoredModelAs, <1>1
<1>3. PICK d \in SoundAuths : /\ MergedAs(d, b, m, r)
                              /\ RestoredModel(b, m, r) = updateAggregatedAvailability(d)
  BY <1>1, RestoredModelAs
<1>4. /\ d.states[m] = x /\ d.cell = b.cell /\ Tracked(d) = Tracked(b)
      /\ \A o \in Tracked(a) \ {m} : d.states[o] = b.states[o]
  <2>1. (m \in Tracked(b)) = TRUE
    BY <1>1
  <2> QED BY <1>1, <1>3, <2>1 DEF MergedAs, Tracked
<1>5. b.states[m].retry = c.retry /\ b.states[m].quota.recover = c.quota.recover
  BY DEF Unmoved
<1>6. /\ x.unavailable
      /\ x.retry \in {b.states[m].retry, r.retry}
      /\ x.quota.recover \in {b.states[m].quota.recover, r.quota.recover}
  BY <1>1, <1>2, MergedCell
<1> HIDE DEF x
<1>7. x.unavailable /\ x.retry = c.retry /\ x.quota.recover = c.quota.recover
  BY <1>5, <1>6
<1>8. c.unavailable /\ c.retry > now
  BY DEF InForce
<1>9. InForce(x) /\ \A t \in Nat : Blocks(x, t) <=> Blocks(c, t)
  BY <1>7, <1>8 DEF InForce, Blocks
<1> HIDE DEF c
<1>10. \A t \in Nat : CredentialQuotaOpen(d, t) <=> CredentialQuotaOpen(b, t)
  BY <1>4 DEF CredentialQuotaOpen
<1>11. ASSUME NEW o \in Tracked(a)
       PROVE  /\ \A t \in Nat : t >= now =>
                   (Blocks(d.states[o], t) <=> Blocks(a.states[o], t))
              /\ InForce(d.states[o]) => InForce(a.states[o])
              /\ InForce(a.states[o]) =>
                   /\ InForce(d.states[o]) /\ d.states[o].retry = a.states[o].retry
                   /\ d.states[o].quota.recover = a.states[o].quota.recover
  <2>1. CASE o = m
    BY <1>4, <1>7, <1>9, <2>1 DEF c
  <2>2. CASE o # m
    BY <1>4, <2>2 DEF Unmoved
  <2> QED BY <2>1, <2>2
<1>12. Unmoved(a, d)
  <2>1. Tracked(d) = Tracked(a) /\ Tracked(a) # {}
    BY <1>4 DEF Unmoved
  <2> QED BY <1>4, <1>10, <1>11, <2>1 DEF Unmoved
<1> QED BY <1>3, <1>12, UnmovedByAggregate

\* What a record that is there says.
LEMMA RecordOf ==
  ASSUME NEW c \in SoundCells
  PROVE  /\ Record(c) # Absent <=> InForce(c) /\ ~coolingOff
         /\ Record(c) # Absent => /\ Record(c).retry = c.retry /\ Record(c).quota = c.quota
                                  /\ Record(c).err = c.err
<1> DEFINE kept == [retry |-> c.retry, quota |-> c.quota, err |-> c.err]
<1>1. kept \in RecordSet
  BY CellType DEF SoundCells, RecordSet
<1>2. kept # Absent
  BY <1>1, AbsentAssumption
<1>3. Record(c) = IF InForce(c) /\ ~coolingOff THEN kept ELSE Absent
  BY DEF Record, InForce
<1> QED BY <1>2, <1>3

\* The records of the models change nothing the credential's state does not say.
LEMMA UnmovedByRecords ==
  ASSUME CooldownInv, loaded = cooldownStateRecords(auth)
  PROVE  \E b \in SoundAuths :
           /\ Unmoved(auth, b)
           /\ RestoreCooldownStates(auth, loaded) =
                IF Restorable(loaded.cell) THEN restoreCredential(b, Completed(loaded.cell))
                ELSE b
<1> DEFINE G == {e \in (SUBSET Models) \X SoundAuths : Unmoved(auth, e[2])}
<1>1. now \in 1..MaxTime /\ auth \in SoundAuths /\ loaded \in SoundFiles /\ now \in Nat
  BY Durations DEF CooldownInv
<1>2. Unmoved(auth, auth)
  BY DEF Unmoved
<1>3. ASSUME NEW s \in SUBSET Models, NEW m \in Models, NEW b \in SoundAuths, <<s, b>> \in G
      PROVE  <<s \cup {m}, RestoredModel(b, m, loaded.states[m])>> \in G
  <2> DEFINE r == loaded.states[m]
             c == State(auth, m)
  <2>1. r \in SoundRecords \cup {Absent} /\ Unmoved(auth, b) /\ c \in SoundCells
    BY <1>1, <1>3, SoundAuthFacts DEF SoundFiles
  <2>2. r = Record(c)
    BY DEF cooldownStateRecords
  <2> HIDE DEF r
  <2>3. CASE ~Restorable(r)
    BY <1>3, <2>1, <2>3 DEF RestoredModel, r
  <2>4. CASE Restorable(r)
    <3>1. InForce(c) /\ r.retry = c.retry /\ r.quota = c.quota
      <4>1. Record(c) # Absent
        BY <2>2, <2>4 DEF Restorable
      <4> HIDE DEF c
      <4> QED BY <2>1, <2>2, <4>1, RecordOf
    <3>2. m \in Tracked(auth) /\ c = auth.states[m]
      <4>1. ~InForce(CleanCell)
        BY DEF CleanCell, InForce
      <4> QED BY <3>1, <4>1 DEF State, Tracked
    <3> HIDE DEF c
    <3>3. Unmoved(auth, RestoredModel(b, m, r))
      BY <1>1, <2>1, <2>4, <3>1, <3>2, UnmovedByMerge
    <3>4. RestoredModel(b, m, r) \in SoundAuths
      BY <1>1, <2>1, <2>4, RestoredModelAs DEF AggregatedAs
    <3> QED BY <3>3, <3>4 DEF r
  <2> QED BY <2>3, <2>4
<1>4. <<{}, auth>> \in G /\ G \in SUBSET ((SUBSET Models) \X SoundAuths)
  BY <1>1, <1>2
<1> HIDE DEF G
<1>5. \E b \in SoundAuths : /\ <<Models, b>> \in G
                            /\ RestoreCooldownStates(auth, loaded) =
                                 IF Restorable(loaded.cell)
                                 THEN restoreCredential(b, Completed(loaded.cell)) ELSE b
  BY <1>1, <1>3, <1>4, RestoreKeeps
<1>6. \A b \in SoundAuths : <<Models, b>> \in G => Unmoved(auth, b)
  BY DEF G
<1> QED BY <1>5, <1>6

\* Nor does its own record.
LEMMA UnmovedByReload ==
  ASSUME CooldownInv, CauseInv, MergeRecords, loaded = cooldownStateRecords(auth),
         ~Refused(auth), ModelLess => auth.cell.err # "unauthorized"
  PROVE  /\ auth' \in SoundAuths /\ ~Refused(auth')
         /\ \A m \in Models, t \in Nat : t >= now => (Held(auth', m, t) <=> Held(auth, m, t))
<1> DEFINE r == loaded.cell
<1>1. now \in 1..MaxTime /\ auth \in SoundAuths /\ loaded \in SoundFiles /\ now \in Nat
  BY Durations DEF CooldownInv
<1>2. /\ r \in SoundRecords \cup {Absent} /\ r = Record(auth.cell)
      /\ auth.cell \in SoundCells
  BY <1>1, SoundAuthFacts DEF SoundFiles, cooldownStateRecords
<1>3. PICK b \in SoundAuths :
        /\ Unmoved(auth, b)
        /\ auth' = IF Restorable(r) THEN restoreCredential(b, Completed(r)) ELSE b
  <2>1. \E b \in SoundAuths :
          /\ Unmoved(auth, b)
          /\ RestoreCooldownStates(auth, loaded) =
               IF Restorable(loaded.cell) THEN restoreCredential(b, Completed(loaded.cell))
               ELSE b
    BY UnmovedByRecords
  <2> QED BY <2>1 DEF MergeRecords
<1> HIDE DEF r
<1>4. auth.cell.err = "unauthorized" => auth.cell.failed /\ ~auth.cell.unavailable
  BY DEF CauseInv, Caused, Refused
<1>5. /\ Tracked(b) = Tracked(auth) /\ (Tracked(auth) = {} => b = auth)
      /\ \A m \in Tracked(auth), t \in Nat :
           t >= now => (Blocks(b.states[m], t) <=> Blocks(auth.states[m], t))
      /\ \A t \in Nat : t >= now => (CredentialQuotaOpen(b, t) <=> CredentialQuotaOpen(auth, t))
      /\ b.cell.err = auth.cell.err
      /\ b.cell.unavailable => auth.cell.unavailable \/ Ripe(auth)
  BY <1>3, Zenon DEF Unmoved
<1>6. CASE ~Restorable(r)
  <2>1. auth' = b
    BY <1>3, <1>6
  <2>2. ~Refused(b)
    BY <1>4, <1>5 DEF CauseInv, Caused, Refused
  <2>3. \A m \in Models, t \in Nat : t >= now => (Held(b, m, t) <=> Held(auth, m, t))
    BY <1>5 DEF Held
  <2> QED BY <2>1, <2>2, <2>3
<1>7. CASE Restorable(r)
  <2> DEFINE d == restoreCredential(b, Completed(r))
  <2>1. auth' = d
    BY <1>3, <1>7
  <2>2. /\ d \in SoundAuths /\ Tracked(d) = Tracked(b) /\ d.states = b.states
        /\ d.cell.unavailable /\ d.cell.err = r.err
        /\ d.cell.retry = r.retry /\ d.cell.quota = r.quota
    BY <1>1, <1>2, <1>7, RestoredCredentialAs
  <2> HIDE DEF d
  <2>3. /\ InForce(auth.cell) /\ r.retry = auth.cell.retry /\ r.quota = auth.cell.quota
        /\ r.err = auth.cell.err
    <3>1. Record(auth.cell) # Absent
      BY <1>2, <1>7 DEF Restorable
    <3> QED BY <1>2, <3>1, RecordOf
  <2>4. ~Refused(d)
    BY <1>4, <2>2, <2>3 DEF InForce, Refused
  <2>5. \A t \in Nat : Blocks(d.cell, t) <=> Blocks(auth.cell, t)
    BY <2>2, <2>3 DEF InForce, Blocks
  <2>6. \A t \in Nat : CredentialQuotaOpen(d, t) <=> CredentialQuotaOpen(auth, t)
    BY <2>2, <2>3 DEF CredentialQuotaOpen
  <2>7. \A m \in Models, t \in Nat : t >= now => (Held(d, m, t) <=> Held(auth, m, t))
    BY <1>5, <2>2, <2>5, <2>6 DEF Held
  <2> QED BY <2>1, <2>2, <2>4, <2>7
<1> QED BY <1>6, <1>7

LEMMA CauseHolds == Spec => [](CooldownInv /\ CauseInv)
<1>1. Init => CauseInv
  <2> SUFFICES ASSUME Init PROVE Caused(auth)
    BY DEF CauseInv
  <2>1. auth.cell.err = "none"
    BY DEF Init, FreshAuth, CleanCell
  <2> QED BY <2>1 DEF Caused
<1>2. CooldownInv /\ CauseInv /\ [Next]_vars => CauseInv'
  BY CausePreserved
<1> QED BY <1>1, <1>2, InvHolds, PTL DEF Spec

\* A configuration reload that restores records nothing has overtaken leaves
\* every model exactly as selectable as it was.
THEOREM ReloadKeepsBlocks == Spec => ReloadChangesNothing
<1>1. CooldownInv /\ CauseInv =>
        [(/\ reload = "merge" /\ MergeRecords
          /\ loaded = cooldownStateRecords(auth) /\ ~Refused(auth)
          /\ ModelLess => auth.cell.err # "unauthorized")
           => \A m \in Models : BlockedTimes(m)' = BlockedTimes(m)]_vars
  <2> SUFFICES ASSUME CooldownInv, CauseInv, MergeRecords,
                      loaded = cooldownStateRecords(auth), ~Refused(auth),
                      ModelLess => auth.cell.err # "unauthorized", NEW m \in Models
               PROVE  BlockedTimes(m)' = BlockedTimes(m)
    OBVIOUS
  <2>1. /\ auth \in SoundAuths /\ now \in Nat /\ Horizon \in Nat /\ now' = now
        /\ \A t \in now..Horizon : t \in Nat /\ t >= now
    BY Durations DEF CooldownInv, MergeRecords
  <2>2. /\ auth' \in SoundAuths /\ ~Refused(auth')
        /\ \A t \in Nat : t >= now => (Held(auth', m, t) <=> Held(auth, m, t))
    BY UnmovedByReload
  <2>3. \A t \in now..Horizon : isAuthBlockedForModel(auth', LastingToken, m, t) # Zero <=>
                                  isAuthBlockedForModel(auth, LastingToken, m, t) # Zero
    <3> TAKE t \in now..Horizon
    <3>1. isAuthBlockedForModel(auth', LastingToken, m, t) # Zero <=> Held(auth', m, t)
      BY <2>1, <2>2, BlockedWhen
    <3>2. isAuthBlockedForModel(auth, LastingToken, m, t) # Zero <=> Held(auth, m, t)
      BY <2>1, BlockedWhen
    <3> QED BY <2>1, <2>2, <3>1, <3>2
  <2>4. BlockedTimes(m)' = {t \in now..Horizon : isAuthBlockedForModel(auth', LastingToken, m, t) # Zero}
    BY <2>1 DEF BlockedTimes
  <2> QED BY <2>3, <2>4 DEF BlockedTimes
<1> QED BY <1>1, CauseHolds, PTL DEF ReloadChangesNothing

-----------------------------------------------------------------------------
\* What a crash loses. A cell with a deadline is unavailable, so that every
\* deadline ahead is in its cell's record.
Flagged(c) == c.retry # Zero => c.unavailable
Marked(a) == Flagged(a.cell) /\ \A m \in Tracked(a) : Flagged(a.states[m])
FlagInv == Marked(auth)

LEMMA CleanFlagged == Flagged(CleanCell) /\ Marked(FreshAuth)
<1>1. Flagged(CleanCell) /\ FreshAuth.cell = CleanCell
  BY DEF Flagged, CleanCell, FreshAuth
<1> QED BY <1>1, FreshSound DEF Marked

\* The adjustments of a failed cell.
LEMMA FlaggedAdjusted ==
  ASSUME now \in 1..MaxTime, NEW c \in Cell, Flagged(c), NEW off \in BOOLEAN,
         NEW force \in BOOLEAN, NEW previous \in 0..Horizon
  PROVE  /\ Relaxed(c, off) \in Cell /\ Flagged(Relaxed(c, off))
         /\ Forced(c, force) \in Cell /\ Flagged(Forced(c, force))
         /\ Extended(c, previous) \in Cell /\ Flagged(Extended(c, previous))
<1>1. Relaxed(c, off) \in Cell /\ Flagged(Relaxed(c, off))
  <2> DEFINE d == Relaxed(c, off)
  <2>1. /\ d \in Cell /\ d.retry = c.retry
        /\ IF off /\ c.retry = Zero /\ c.quota.recover = Zero
           THEN ~d.unavailable /\ ~d.quota.exceeded ELSE d = c
    BY RelaxedFacts
  <2> HIDE DEF d
  <2>2. d \in Cell /\ Flagged(d)
    BY <2>1 DEF Flagged
  <2> QED BY <2>2 DEF d
<1>2. Forced(c, force) \in Cell /\ Flagged(Forced(c, force))
  <2> DEFINE d == Forced(c, force)
  <2>1. /\ d \in Cell
        /\ IF force /\ c.retry = Zero THEN d.unavailable /\ d.retry > now ELSE d = c
    BY ForcedFacts
  <2> HIDE DEF d
  <2>2. d \in Cell /\ Flagged(d)
    BY <2>1 DEF Flagged
  <2> QED BY <2>2 DEF d
<1>3. Extended(c, previous) \in Cell /\ Flagged(Extended(c, previous))
  <2> DEFINE d == Extended(c, previous)
  <2>1. /\ d \in Cell /\ d.unavailable = c.unavailable
        /\ IF c.retry # Zero /\ previous > now
           THEN d.retry >= c.retry /\ d.retry >= previous /\ d.retry \in {c.retry, previous}
           ELSE d = c
    BY ExtendedFacts
  <2> HIDE DEF d
  <2>2. d \in Cell /\ Flagged(d)
    BY <2>1 DEF Flagged
  <2> QED BY <2>2 DEF d
<1> QED BY <1>1, <1>2, <1>3

LEMMA FlaggedFailed ==
  ASSUME CooldownInv, NEW f \in Failures
  PROVE  /\ \A m \in Models : Flagged(FinalCell(m, f))
         /\ Flagged(CellFailure(f))
<1>1. /\ now \in 1..MaxTime /\ auth \in SoundAuths
      /\ Off(f) \in BOOLEAN /\ f.force \in BOOLEAN
  BY FailureType DEF CooldownInv, Off
<1>2. ASSUME NEW c \in SoundCells, NEW held \in BOOLEAN
      PROVE  LET p == Penalised(c, f.kind, f.hint, Off(f), held)
             IN  /\ p \in Cell /\ Flagged(p)
                 /\ Flagged(Extended(Forced(Relaxed(p, Off(f)), f.force), c.retry))
                 /\ Flagged(Relaxed(Forced(Extended(p, c.retry), f.force), Off(f)))
  <2> DEFINE p == Penalised(c, f.kind, f.hint, Off(f), held)
  <2>1. PenalisedAs(p, c, f.kind, Off(f), held)
    BY <1>1, <1>2, PenalisedFacts
  <2>2. c.retry \in 0..Horizon
    BY <1>2, CellType DEF SoundCells
  <2> HIDE DEF p
  <2>3. p \in Cell /\ Flagged(p)
    BY <2>1 DEF PenalisedAs, Flagged
  <2>4. Flagged(Extended(Forced(Relaxed(p, Off(f)), f.force), c.retry))
    <3>1. Relaxed(p, Off(f)) \in Cell /\ Flagged(Relaxed(p, Off(f)))
      BY <1>1, <2>2, <2>3, FlaggedAdjusted
    <3>2. /\ Forced(Relaxed(p, Off(f)), f.force) \in Cell
          /\ Flagged(Forced(Relaxed(p, Off(f)), f.force))
      BY <1>1, <2>2, <3>1, FlaggedAdjusted
    <3> QED BY <1>1, <2>2, <3>2, FlaggedAdjusted
  <2>5. Flagged(Relaxed(Forced(Extended(p, c.retry), f.force), Off(f)))
    <3>1. Extended(p, c.retry) \in Cell /\ Flagged(Extended(p, c.retry))
      BY <1>1, <2>2, <2>3, FlaggedAdjusted
    <3>2. /\ Forced(Extended(p, c.retry), f.force) \in Cell
          /\ Flagged(Forced(Extended(p, c.retry), f.force))
      BY <1>1, <2>2, <3>1, FlaggedAdjusted
    <3> QED BY <1>1, <2>2, <3>2, FlaggedAdjusted
  <2> QED BY <2>3, <2>4, <2>5 DEF p
<1>3. ASSUME NEW m \in Models PROVE Flagged(FinalCell(m, f))
  <2>1. State(auth, m) \in SoundCells
    BY <1>1, SoundAuthFacts
  <2>2. State(auth, m).quota.exceeded \in BOOLEAN
    BY <2>1, CellType, QuotaType DEF SoundCells
  <2> QED BY <1>2, <2>1, <2>2 DEF FinalCell, PenalisedBy
<1>4. Flagged(CellFailure(f))
  BY <1>1, <1>2, SoundAuthFacts DEF CellFailure
<1> QED BY <1>3, <1>4

\* Recomputing the aggregate marks the credential, whatever its cell was.
LEMMA AggregatedDeadline ==
  ASSUME now \in 1..MaxTime, NEW a \in SoundAuths, ~Ripe(a)
  PROVE  updateAggregatedAvailability(a).cell.retry = Zero
<1> DEFINE tracked == {a.states[m] : m \in Tracked(a)}
           everyModel == \A c \in tracked : c.unavailable /\ c.retry > now
           b == updateAggregatedAvailability(a)
<1>1. a.cell \in Cell /\ ~CredentialQuotaOpen(a, now) /\ (tracked = {} \/ ~everyModel)
  BY SoundAuthFacts DEF Ripe, InForce
<1>2. \E u, q, ss : b = [a EXCEPT !.cell.unavailable = u, !.cell.retry = Zero,
                                  !.cell.quota = q, !.states = ss]
  <2>1. CASE tracked = {}
    <3>1. b = [a EXCEPT !.cell.unavailable = FALSE, !.cell.retry = Zero,
                        !.cell.quota = CleanQuota]
      BY <1>1, <2>1, Zenon DEF updateAggregatedAvailability
    <3>2. b = [a EXCEPT !.cell.unavailable = FALSE, !.cell.retry = Zero,
                        !.cell.quota = CleanQuota, !.states = a.states]
      BY <3>1 DEF SoundAuths
    <3> QED BY <3>2
  <2>2. CASE tracked # {} /\ ~everyModel
    <3>1. \E u, q, ss : b = [a EXCEPT !.cell.unavailable = u,
                                      !.cell.retry = IF everyModel
                                                     THEN EarliestOf({c.retry : c \in tracked})
                                                     ELSE Zero,
                                      !.cell.quota = q, !.states = ss]
      BY <1>1, <2>2, Zenon DEF updateAggregatedAvailability
    <3> HIDE DEF everyModel, tracked, b
    <3>2. (IF everyModel THEN EarliestOf({c.retry : c \in tracked}) ELSE Zero) = Zero
      BY <2>2
    <3> QED BY <3>1, <3>2, Zenon
  <2> QED BY <1>1, <2>1, <2>2
<1> HIDE DEF b
<1>3. PICK u, q, ss : b = [a EXCEPT !.cell.unavailable = u, !.cell.retry = Zero,
                                    !.cell.quota = q, !.states = ss]
  BY <1>2
<1> DEFINE c == [a.cell EXCEPT !.unavailable = u, !.retry = Zero, !.quota = q]
<1>4. b = [a EXCEPT !.cell = c, !.states = ss]
  BY <1>3 DEF SoundAuths
<1>5. c.retry = Zero
  BY <1>1 DEF Cell
<1> HIDE DEF c
<1>6. b.cell = c
  BY <1>4 DEF SoundAuths
<1> QED BY <1>5, <1>6 DEF b

LEMMA AggregatedMarked ==
  ASSUME now \in 1..MaxTime, NEW a \in SoundAuths, \A m \in Tracked(a) : Flagged(a.states[m])
  PROVE  Marked(updateAggregatedAvailability(a))
<1> DEFINE b == updateAggregatedAvailability(a)
<1>1. AggregatedAs(b, a) /\ (b.cell.unavailable <=> Ripe(a))
  BY AggregatedFacts, AggregatedUnavailable
<1>2. Flagged(b.cell)
  BY <1>1, AggregatedDeadline DEF Flagged
<1> HIDE DEF b
<1>3. ASSUME NEW m \in Tracked(b) PROVE Flagged(b.states[m])
  <2> DEFINE c == a.states[m]
  <2>1. Flagged(c) /\ (b.states[m] = c \/ b.states[m] = Expire(c)) /\ c \in SoundCells
    BY <1>1, SoundAuthFacts DEF AggregatedAs
  <2> HIDE DEF c
  <2>2. Flagged(Expire(c))
    <3> DEFINE d == [c EXCEPT !.unavailable = FALSE, !.retry = Zero]
    <3>1. d.retry = Zero
      BY <2>1 DEF SoundCells, Cell
    <3>2. Expire(c) = c \/ Expire(c) = d
      BY DEF Expire
    <3> HIDE DEF d
    <3> QED BY <2>1, <3>1, <3>2 DEF Flagged
  <2> QED BY <2>1, <2>2
<1> QED BY <1>2, <1>3 DEF b, Marked

LEMMA ForgivenMarked ==
  ASSUME NEW a \in SoundAuths, Marked(a)
  PROVE  Marked([a EXCEPT !.cell.err = "none", !.cell.failed = FALSE])
<1> DEFINE d == [a EXCEPT !.cell.err = "none", !.cell.failed = FALSE]
<1>1. /\ d.states = a.states /\ d.cell.retry = a.cell.retry
      /\ d.cell.unavailable = a.cell.unavailable
  BY Forgiven
<1> HIDE DEF d
<1>2. Marked(d)
  BY <1>1 DEF Marked, Flagged, Tracked
<1> QED BY <1>2 DEF d

\* What is cleared has no deadline.
LEMMA ClearedMarked ==
  ASSUME now \in 1..MaxTime, NEW a \in SoundAuths
  PROVE  /\ clearCooldownStateForAuth(a) \in SoundAuths
         /\ Marked(clearCooldownStateForAuth(a))
<1> DEFINE Dirty(c) == \/ c.unavailable \/ c.retry # Zero
                       \/ c.quota.exceeded \/ c.quota.recover # Zero
           Cleared(c) == IF Dirty(c) THEN [c EXCEPT !.unavailable = FALSE, !.retry = Zero,
                                                    !.quota = CleanQuota] ELSE c
           states == [i \in Models |-> IF a.states[i] = Absent THEN Absent
                                       ELSE Cleared(a.states[i])]
           b == [cell |-> Cleared(a.cell), states |-> states]
<1>1. ASSUME NEW c \in SoundCells
      PROVE  Cleared(c) \in SoundCells /\ Flagged(Cleared(c))
  <2> DEFINE d == [c EXCEPT !.unavailable = FALSE, !.retry = Zero, !.quota = CleanQuota]
  <2>1. Zero \in 0..Horizon /\ CleanQuota \in Quota /\ c \in Cell
    BY Durations, CleanIsSound DEF Zero, SoundCells
  <2>2. d \in Cell /\ ~d.unavailable /\ d.retry = Zero /\ d.quota = CleanQuota
    BY <2>1 DEF Cell
  <2>3. SoundQuota(CleanQuota)
    BY DEF SoundQuota, CleanQuota, Zero
  <2>4. d \in SoundCells /\ Flagged(d)
    BY <2>2, <2>3 DEF SoundCells, Sound, Flagged
  <2> HIDE DEF d
  <2>5. CASE Dirty(c)
    BY <2>4, <2>5 DEF d
  <2>6. CASE ~Dirty(c)
    BY <2>6 DEF Flagged
  <2> QED BY <2>5, <2>6
<1>2. clearCooldownStateForAuth(a) =
         IF Tracked(a) = {} THEN b ELSE updateAggregatedAvailability(b)
  BY DEF clearCooldownStateForAuth
<1> HIDE DEF Cleared
<1>3. a.cell \in SoundCells /\ a.states \in [Models -> SoundCells \cup {Absent}]
  BY DEF SoundAuths
<1>4. b \in SoundAuths /\ b.cell = Cleared(a.cell) /\ b.states = states
  BY <1>1, <1>3 DEF SoundAuths
<1>5. Marked(b)
  BY <1>1, <1>3, <1>4 DEF Marked, Tracked
<1> HIDE DEF b
<1>6. /\ updateAggregatedAvailability(b) \in SoundAuths
      /\ Marked(updateAggregatedAvailability(b))
  BY <1>4, <1>5, AggregatedFacts, AggregatedMarked DEF AggregatedAs, Marked
<1> QED BY <1>2, <1>4, <1>5, <1>6

\* What is restored is unavailable.
LEMMA RestoredMarked ==
  ASSUME now \in 1..MaxTime, NEW a \in SoundAuths, Marked(a), NEW records \in SoundFiles
  PROVE  Marked(RestoreCooldownStates(a, records))
<1> DEFINE G == {e \in (SUBSET Models) \X SoundAuths : Marked(e[2])}
<1>1. ASSUME NEW s \in SUBSET Models, NEW m \in Models, NEW b \in SoundAuths, <<s, b>> \in G
      PROVE  <<s \cup {m}, RestoredModel(b, m, records.states[m])>> \in G
  <2> DEFINE r == records.states[m]
  <2>1. r \in SoundRecords \cup {Absent} /\ Marked(b)
    BY <1>1 DEF SoundFiles
  <2>2. CASE ~Restorable(r)
    BY <1>1, <2>1, <2>2 DEF RestoredModel
  <2>3. CASE Restorable(r)
    <3> HIDE DEF r
    <3>1. PICK d \in SoundAuths :
            /\ MergedAs(d, b, m, r)
            /\ RestoredModel(b, m, r) = updateAggregatedAvailability(d)
            /\ AggregatedAs(RestoredModel(b, m, r), d)
      BY <2>1, <2>3, RestoredModelAs
    <3>2. r \in SoundRecords /\ State(b, m) \in SoundCells
      BY <2>1, <2>3, SoundAuthFacts DEF Restorable
    <3>3. d.states[m].unavailable
      BY <3>1, <3>2, MergedCell DEF MergedAs
    <3>4. \A o \in Tracked(d) : Flagged(d.states[o])
      <4> SUFFICES ASSUME NEW o \in Tracked(d), o # m PROVE Flagged(d.states[o])
        BY <3>3 DEF Flagged
      <4>1. o \in Tracked(b) /\ d.states[o] = b.states[o]
        BY <3>1 DEF MergedAs, Tracked
      <4> QED BY <2>1, <4>1 DEF Marked
    <3>5. Marked(RestoredModel(b, m, r)) /\ RestoredModel(b, m, r) \in SoundAuths
      BY <3>1, <3>4, AggregatedMarked DEF AggregatedAs
    <3> QED BY <3>5 DEF r
  <2> QED BY <2>2, <2>3
<1>2. <<{}, a>> \in G /\ G \in SUBSET ((SUBSET Models) \X SoundAuths)
  OBVIOUS
<1> HIDE DEF G
<1>3. \E b \in SoundAuths : /\ <<Models, b>> \in G
                            /\ RestoreCooldownStates(a, records) =
                                 IF Restorable(records.cell)
                                 THEN restoreCredential(b, Completed(records.cell)) ELSE b
  BY <1>1, <1>2, RestoreKeeps
<1>4. PICK b \in SoundAuths :
        /\ <<Models, b>> \in G
        /\ RestoreCooldownStates(a, records) =
             IF Restorable(records.cell)
             THEN restoreCredential(b, Completed(records.cell)) ELSE b
  BY <1>3
<1>5. Marked(b)
  BY <1>4 DEF G
<1>6. CASE Restorable(records.cell)
  <2> DEFINE d == restoreCredential(b, Completed(records.cell))
  <2>1. records.cell \in SoundRecords \cup {Absent}
    BY DEF SoundFiles
  <2>2. d.cell.unavailable /\ d.states = b.states /\ Tracked(d) = Tracked(b)
    BY <1>6, <2>1, RestoredCredentialAs
  <2> HIDE DEF d
  <2>3. Marked(d)
    BY <1>5, <2>2 DEF Marked, Flagged
  <2> QED BY <1>4, <1>6, <2>3 DEF d
<1>7. CASE ~Restorable(records.cell)
  BY <1>4, <1>5, <1>7
<1> QED BY <1>6, <1>7

LEMMA ResetMarked ==
  ASSUME CooldownInv, ResetQuota
  PROVE  Marked(auth')
<1> DEFINE states == [o \in Models |-> IF auth.states[o] = Absent THEN Absent ELSE CleanCell]
           reset == [auth EXCEPT !.states = states]
           b == clearCooldownStateForAuth(reset)
           c == IF Tracked(b) = {} THEN b ELSE updateAggregatedAvailability(b)
           a == IF hasModelError(c) THEN c
                ELSE [c EXCEPT !.cell.err = "none", !.cell.failed = FALSE]
<1>1. now \in 1..MaxTime /\ auth \in SoundAuths
  BY DEF CooldownInv
<1>2. reset \in SoundAuths
  BY <1>1, CleanIsSound DEF SoundAuths
<1>3. auth' = a
  BY Zenon DEF ResetQuota, reset, b, c, Outcome
<1> HIDE DEF reset
<1>4. b \in SoundAuths /\ Marked(b)
  BY <1>1, <1>2, ClearedMarked
<1> HIDE DEF b
<1>5. c \in SoundAuths /\ Marked(c)
  <2>1. updateAggregatedAvailability(b) \in SoundAuths
    BY <1>1, <1>4, AggregatedFacts DEF AggregatedAs
  <2>2. Marked(updateAggregatedAvailability(b))
    BY <1>1, <1>4, AggregatedMarked DEF Marked
  <2> QED BY <1>4, <2>1, <2>2
<1> HIDE DEF c
<1>6. Marked([c EXCEPT !.cell.err = "none", !.cell.failed = FALSE])
  BY <1>5, ForgivenMarked
<1> QED BY <1>3, <1>5, <1>6

LEMMA FlagPreserved == CooldownInv /\ FlagInv /\ [Next]_vars => FlagInv'
<1> SUFFICES ASSUME CooldownInv, FlagInv, [Next]_vars PROVE FlagInv'
  OBVIOUS
<1>1. /\ now \in 1..MaxTime /\ auth \in SoundAuths /\ coolingOff \in BOOLEAN
      /\ file \in SoundFiles /\ loaded \in SoundFiles /\ Marked(auth)
  BY DEF CooldownInv, FlagInv
<1>2. ASSUME Marked(auth') PROVE FlagInv'
  BY <1>2 DEF FlagInv, Marked, Flagged, Tracked
<1>3. ASSUME NEW a, Outcome(a), Marked(a) PROVE FlagInv'
  BY <1>2, <1>3 DEF Outcome
<1>4. ASSUME NEW m \in Models, Success(m) PROVE FlagInv'
  <2> DEFINE a == [auth EXCEPT !.states[m] = CleanCell]
             b == updateAggregatedAvailability(a)
             c == [b EXCEPT !.cell.err = "none", !.cell.failed = FALSE]
  <2>1. a \in SoundAuths /\ \A o \in Tracked(a) : Flagged(a.states[o])
    <3>1. /\ a \in SoundAuths /\ a.states = [auth.states EXCEPT ![m] = CleanCell]
          /\ auth.states \in [Models -> SoundCells \cup {Absent}]
          /\ Tracked(a) = Tracked(auth) \cup {m}
      <4>1. auth.states \in [Models -> SoundCells \cup {Absent}]
        BY <1>1 DEF SoundAuths
      <4> QED BY <1>1, <4>1, CleanIsSound, WithState
    <3> HIDE DEF a
    <3>2. ASSUME NEW o \in Tracked(a) PROVE Flagged(a.states[o])
      <4>1. CASE o = m
        BY <3>1, <4>1, CleanFlagged
      <4>2. CASE o # m
        BY <1>1, <3>1, <3>2, <4>2 DEF Marked, Tracked
      <4> QED BY <4>1, <4>2
    <3> QED BY <3>1, <3>2
  <2>2. SuccessResult(m) \in {auth, b, c}
    BY DEF SuccessResult
  <2> HIDE DEF a
  <2>3. b \in SoundAuths /\ Marked(b)
    BY <1>1, <2>1, AggregatedFacts, AggregatedMarked DEF AggregatedAs
  <2> HIDE DEF b
  <2>4. Marked(c)
    BY <2>3, ForgivenMarked
  <2> HIDE DEF c
  <2>5. Marked(SuccessResult(m))
    BY <1>1, <2>2, <2>3, <2>4
  <2> QED BY <1>3, <1>4, <2>5, SuccessFacts
<1>5. ASSUME NEW m \in Models, NEW f \in Failures, Failure(m, f) PROVE FlagInv'
  <2> DEFINE r == FailureResult(m, f)
  <2>1. FailedAs(r, m, f)
    BY <1>1, FailureResultFacts
  <2>2. Outcome(updateAggregatedAvailability(r))
    BY <1>5, FailureIs
  <2> HIDE DEF r
  <2>3. ASSUME NEW o \in Tracked(r) PROVE Flagged(r.states[o])
    <3>1. CASE o = m
      BY <2>1, <3>1, FlaggedFailed DEF FailedAs
    <3>2. CASE o # m /\ ~Spreads(f)
      BY <1>1, <2>1, <3>2 DEF FailedAs, Marked
    <3>3. CASE o # m /\ Spreads(f)
      <4>1. o \in Tracked(auth) /\ r.states[o] = ReachedBy(PenalisedBy(m, f), auth.states[o])
        BY <2>1, <3>3 DEF FailedAs
      <4>2. f.kind = "quota" /\ ~Off(f)
        BY <3>3, FailureType DEF Spreads
      <4>3. PenalisedBy(m, f) \in Cell /\ PenalisedBy(m, f).quota.recover > now
        BY <1>1, <4>2, ReportFacts DEF PenalisedAs
      <4>4. auth.states[o] \in SoundCells
        BY <1>1, <4>1, SoundAuthFacts
      <4> QED BY <1>1, <4>1, <4>3, <4>4, ReachedFacts DEF Flagged
    <3> QED BY <3>1, <3>2, <3>3
  <2>4. Marked(updateAggregatedAvailability(r))
    BY <1>1, <2>1, <2>3, AggregatedMarked DEF FailedAs
  <2> QED BY <1>3, <2>2, <2>4
<1>6. CASE SuccessWithoutModel
  <2>1. auth' = auth \/ auth' = [auth EXCEPT !.cell = CleanCell]
    BY <1>6 DEF SuccessWithoutModel, Outcome
  <2>2. /\ [auth EXCEPT !.cell = CleanCell].cell = CleanCell
        /\ [auth EXCEPT !.cell = CleanCell].states = auth.states
    BY <1>1 DEF SoundAuths
  <2>3. Marked([auth EXCEPT !.cell = CleanCell])
    BY <1>1, <2>2, CleanFlagged DEF Marked, Tracked
  <2> QED BY <1>1, <1>2, <2>1, <2>3
<1>7. ASSUME NEW f \in Failures, FailureWithoutModel(f) PROVE FlagInv'
  <2> DEFINE d == [auth EXCEPT !.cell = CellFailure(f)]
  <2>1. Outcome(d)
    BY <1>7, CellFailureFacts
  <2>2. d.cell = CellFailure(f) /\ d.states = auth.states
    BY <1>1 DEF SoundAuths
  <2> HIDE DEF d
  <2>3. Marked(d)
    BY <1>1, <2>2, FlaggedFailed DEF Marked, Tracked
  <2> QED BY <1>3, <2>1, <2>3
<1>8. CASE ResetQuota
  BY <1>2, <1>8, ResetMarked
<1>9. CASE clearDisabledCooldownStates
  BY <1>1, <1>2, <1>9, ClearedMarked DEF clearDisabledCooldownStates
<1>10. CASE MergeRecords
  BY <1>1, <1>2, <1>10, RestoredMarked DEF MergeRecords
<1>11. CASE Crash
  BY <1>2, <1>11, CleanFlagged DEF Crash
<1>12. CASE Restart
  BY <1>1, <1>2, <1>12, FreshSound, CleanFlagged, RestoredMarked DEF Restart
<1>13. CASE UNCHANGED auth
  BY <1>1, <1>2, <1>13
<1>14. ASSUME \/ persistCooldownStates \/ \E off \in BOOLEAN : StoreConfig(off)
              \/ ApplyConfigWithCooldownStateStore \/ LoadRecords \/ Tick \/ UNCHANGED vars
       PROVE  UNCHANGED auth
  BY <1>14 DEF persistCooldownStates, StoreConfig, ApplyConfigWithCooldownStateStore,
     LoadRecords, Tick, vars
<1> QED BY <1>4, <1>5, <1>6, <1>7, <1>8, <1>9, <1>10, <1>11, <1>12, <1>13, <1>14 DEF Next

\* What a restart restores into a fresh credential: the models with a record that
\* still counts, each with the deadlines of its record.
RestoredAs(b, s, records) ==
  /\ Tracked(b) = {m \in s : Restorable(records.states[m])}
  /\ \A m \in Tracked(b) :
       /\ b.states[m].unavailable /\ b.states[m].retry = records.states[m].retry
       /\ b.states[m].quota.recover = records.states[m].quota.recover
  /\ b.cell.err = "none" /\ ~CredentialScoped(b.cell.quota)
  /\ Tracked(b) = {} => b.cell = CleanCell

LEMMA RestoredStep ==
  ASSUME now \in 1..MaxTime, NEW records \in SoundFiles, NEW s \in SUBSET Models,
         NEW m \in Models, m \notin s, NEW b \in SoundAuths, RestoredAs(b, s, records)
  PROVE  /\ RestoredModel(b, m, records.states[m]) \in SoundAuths
         /\ RestoredAs(RestoredModel(b, m, records.states[m]), s \cup {m}, records)
<1> DEFINE r == records.states[m]
           e == RestoredModel(b, m, r)
           Counting(S) == {o \in S : Restorable(records.states[o])}
<1>1. r \in SoundRecords \cup {Absent}
  BY DEF SoundFiles
<1>2. CASE ~Restorable(r)
  <2>1. e = b
    BY <1>2 DEF RestoredModel
  <2>2. Counting(s \cup {m}) = Counting(s)
    BY <1>2
  <2> HIDE DEF e
  <2>3. e \in SoundAuths /\ RestoredAs(e, s \cup {m}, records)
    BY <2>1, <2>2 DEF RestoredAs
  <2> QED BY <2>3 DEF e
<1>3. CASE Restorable(r)
  <2>1. Counting(s \cup {m}) = Counting(s) \cup {m}
    BY <1>3
  <2> HIDE DEF r
  <2>2. /\ r \in SoundRecords /\ r.retry > now
        /\ \E d \in SoundAuths : /\ MergedAs(d, b, m, r)
                                 /\ RestoredModel(b, m, r) = updateAggregatedAvailability(d)
                                 /\ AggregatedAs(RestoredModel(b, m, r), d)
    BY <1>1, <1>3, RestoredModelAs
  <2>3. PICK d \in SoundAuths : /\ MergedAs(d, b, m, r)
                                /\ e = updateAggregatedAvailability(d)
                                /\ AggregatedAs(e, d)
    BY <2>2
  <2> HIDE DEF e
  <2>4. m \notin Tracked(b) /\ State(b, m) = CleanCell
    BY DEF RestoredAs, State, Tracked
  <2>5. /\ d.states[m].unavailable /\ d.states[m].retry = r.retry
        /\ d.states[m].quota.recover = r.quota.recover
    <3> DEFINE x == mergeModelState(CleanCell, m \in Tracked(b), r)
    <3>1. CleanCell.retry = 0 /\ CleanCell.quota.recover = 0
      BY DEF CleanCell, CleanQuota, Zero
    <3>2. /\ x.unavailable
          /\ x.retry \in {CleanCell.retry, r.retry} /\ x.retry >= r.retry
          /\ x.quota.recover \in {CleanCell.quota.recover, r.quota.recover}
          /\ x.quota.recover >= r.quota.recover
          /\ r.retry \in Nat /\ r.quota.recover \in Nat
      BY <2>2, CleanIsSound, MergedCell
    <3>3. d.states[m] = x
      BY <2>3, <2>4 DEF MergedAs
    <3> HIDE DEF x
    <3> QED BY <3>1, <3>2, <3>3
  <2>6. /\ Tracked(d) = Tracked(b) \cup {m} /\ d.cell = b.cell
        /\ \A o \in Tracked(b) : d.states[o] = b.states[o]
    BY <2>3, <2>4 DEF MergedAs, Tracked
  <2>7. ASSUME NEW o \in Tracked(d)
        PROVE  /\ d.states[o].unavailable /\ d.states[o].retry = records.states[o].retry
               /\ d.states[o].quota.recover = records.states[o].quota.recover
               /\ d.states[o].retry > now
    <3>1. CASE o = m
      BY <2>2, <2>5, <3>1 DEF r
    <3>2. CASE o # m
      <4>1. o \in Tracked(b)
        BY <2>6, <3>2
      <4> QED BY <2>6, <4>1 DEF RestoredAs, Restorable
    <3> QED BY <3>1, <3>2
  <2>8. \A o \in Tracked(d) : e.states[o] = d.states[o]
    <3> TAKE o \in Tracked(d)
    <3>1. e.states[o] = d.states[o] \/ e.states[o] = Expire(d.states[o])
      BY <2>3 DEF AggregatedAs
    <3>2. d.states[o].retry \in Nat /\ now \in Nat
      BY SoundAuthFacts, Deadlines
    <3>3. Expire(d.states[o]) = d.states[o]
      BY <2>7, <3>2 DEF Expire
    <3> QED BY <3>1, <3>3
  <2>9. ~CredentialQuotaOpen(d, now)
    BY <2>6 DEF RestoredAs, CredentialQuotaOpen, CredentialScoped
  <2>10. ~CredentialScoped(e.cell.quota)
    BY <2>3, <2>9, AggregatedCell
  <2>11. e \in SoundAuths /\ Tracked(e) = Tracked(d) /\ e.cell.err = "none"
    BY <2>3, <2>6 DEF AggregatedAs, RestoredAs
  <2>12. Tracked(e) = Counting(s \cup {m})
    BY <2>1, <2>6, <2>11 DEF RestoredAs
  <2> HIDE DEF Counting
  <2>13. \A o \in Tracked(e) :
           /\ e.states[o].unavailable /\ e.states[o].retry = records.states[o].retry
           /\ e.states[o].quota.recover = records.states[o].quota.recover
    BY <2>7, <2>8, <2>11
  <2>14. Tracked(e) # {}
    BY <2>6, <2>11
  <2>15. RestoredAs(e, s \cup {m}, records)
    BY <2>10, <2>11, <2>12, <2>13, <2>14 DEF RestoredAs, Counting
  <2> QED BY <2>11, <2>15 DEF e, r
<1> QED BY <1>2, <1>3

LEMMA RestoredAfresh ==
  ASSUME now \in 1..MaxTime, NEW records \in SoundFiles
  PROVE  \E b \in SoundAuths :
           /\ RestoredAs(b, Models, records)
           /\ RestoreCooldownStates(FreshAuth, records) =
                IF Restorable(records.cell) THEN restoreCredential(b, Completed(records.cell))
                ELSE b
<1> DEFINE G == {e \in (SUBSET Models) \X SoundAuths : RestoredAs(e[2], e[1], records)}
<1>1. \A s \in SUBSET Models, b \in SoundAuths :
        <<s, b>> \in G <=> RestoredAs(b, s, records)
  OBVIOUS
<1>2. RestoredAs(FreshAuth, {}, records)
  <2>1. FreshAuth.cell = CleanCell /\ CleanCell.err = "none" /\ ~CredentialScoped(CleanCell.quota)
    BY DEF FreshAuth, CleanCell, CleanQuota, CredentialScoped
  <2> QED BY <2>1, FreshSound DEF RestoredAs
<1>3. G \in SUBSET ((SUBSET Models) \X SoundAuths)
  OBVIOUS
<1> HIDE DEF G
<1>4. ASSUME NEW s \in SUBSET Models, NEW m \in Models, NEW b \in SoundAuths,
             m \notin s, <<s, b>> \in G
      PROVE  <<s \cup {m}, RestoredModel(b, m, records.states[m])>> \in G
  <2>1. /\ RestoredModel(b, m, records.states[m]) \in SoundAuths
        /\ RestoredAs(RestoredModel(b, m, records.states[m]), s \cup {m}, records)
    BY <1>1, <1>4, RestoredStep
  <2> QED BY <1>1, <2>1
<1>5. <<{}, FreshAuth>> \in G
  BY <1>1, <1>2, FreshSound
<1>6. \E b \in SoundAuths : /\ <<Models, b>> \in G
                            /\ RestoreCooldownStates(FreshAuth, records) =
                                 IF Restorable(records.cell)
                                 THEN restoreCredential(b, Completed(records.cell)) ELSE b
  BY <1>3, <1>4, <1>5, FreshSound, RestoreKeeps
<1> QED BY <1>1, <1>6

\* What the file says of a model: the deadline of its own record, of an open
\* credential quota, or of the credential when no model has a record.
FileHolds(g, m, t) ==
  \/ g.cell # Absent /\ CredentialScoped(g.cell.quota) /\ g.cell.quota.recover > t
  \/ g.states[m] # Absent /\ g.states[m].retry > t
  \/ (\A o \in Models : g.states[o] = Absent) /\ g.cell # Absent /\ g.cell.retry > t
SoundSave(g) == /\ g.cell # Absent => WindowInside(g.cell) /\ g.cell.err # "unauthorized"
                /\ \A m \in Models : g.states[m] # Absent => WindowInside(g.states[m])

\* A credential that was saved and holds no window beyond a deadline is held as
\* its records say.
LEMMA SavedHolds ==
  ASSUME CooldownInv, FlagInv, ~coolingOff, file = cooldownStateRecords(auth),
         \A o \in Tracked(auth) : WindowInside(auth.states[o]), WindowInside(auth.cell),
         NEW m \in Models, NEW t \in Nat, t >= now
  PROVE  /\ Held(auth, m, t) => FileHolds(file, m, t)
         /\ BackedFile(file) /\ FileHolds(file, m, t) => Held(auth, m, t)
<1>1. /\ now \in 1..MaxTime /\ now \in Nat /\ auth \in SoundAuths /\ auth.cell \in SoundCells
      /\ \A o \in Models : State(auth, o) \in SoundCells
  BY SoundAuthFacts, Durations DEF CooldownInv
<1>2. file.cell = Record(auth.cell) /\ \A o \in Models : file.states[o] = Record(State(auth, o))
  BY DEF cooldownStateRecords
<1>3. ASSUME NEW c \in SoundCells
      PROVE  /\ Record(c) # Absent <=> InForce(c)
             /\ Record(c) # Absent => Record(c).retry = c.retry /\ Record(c).quota = c.quota
             /\ c.retry \in Nat /\ c.quota.recover \in Nat
             /\ Flagged(c) /\ c.retry > t => InForce(c)
             /\ WindowInside(c) /\ c.quota.recover > t => c.retry > t
  <2>1. c.retry \in Nat /\ c.quota.recover \in Nat
    BY <1>1, Deadlines
  <2>2. Flagged(c) /\ c.retry > t => InForce(c)
    BY <1>1, <2>1 DEF Flagged, InForce, Zero
  <2>3. WindowInside(c) /\ c.quota.recover > t => c.retry > t
    BY <1>1, <2>1 DEF WindowInside
  <2> QED BY <2>1, <2>2, <2>3, RecordOf
<1>4. Flagged(auth.cell) /\ \A o \in Tracked(auth) : Flagged(auth.states[o])
  BY DEF FlagInv, Marked
<1>5. \A o \in Models : file.states[o] # Absent =>
         o \in Tracked(auth) /\ State(auth, o) = auth.states[o]
  <2>1. ~InForce(CleanCell)
    BY DEF CleanCell, InForce
  <2> QED BY <1>1, <1>2, <1>3, <2>1 DEF State, Tracked
<1>6. ASSUME NEW o \in Tracked(auth) PROVE o \in Models /\ State(auth, o) = auth.states[o]
  BY <1>6 DEF State, Tracked
<1>7. CASE CredentialQuotaOpen(auth, t)
  <2>1. CredentialScoped(auth.cell.quota) /\ auth.cell.quota.recover > t
    BY <1>7 DEF CredentialQuotaOpen, CredentialScoped
  <2>2. Record(auth.cell) # Absent /\ Record(auth.cell).quota = auth.cell.quota
    BY <1>1, <1>3, <1>4, <2>1
  <2>3. FileHolds(file, m, t)
    BY <1>2, <2>1, <2>2 DEF FileHolds
  <2> QED BY <1>7, <2>3 DEF Held
<1>8. CASE ~CredentialQuotaOpen(auth, t)
  <2>1. ~(/\ file.cell # Absent /\ CredentialScoped(file.cell.quota)
          /\ file.cell.quota.recover > t)
    BY <1>1, <1>2, <1>3, <1>8 DEF CredentialQuotaOpen, CredentialScoped
  <2>2. Tracked(auth) = {} /\ Blocks(auth.cell, t) => FileHolds(file, m, t)
    <3> SUFFICES ASSUME Tracked(auth) = {}, Blocks(auth.cell, t) PROVE FileHolds(file, m, t)
      OBVIOUS
    <3>1. auth.cell.retry > t
      BY <1>1, <1>3 DEF Blocks
    <3>2. file.cell # Absent /\ file.cell.retry > t
      BY <1>1, <1>2, <1>3, <1>4, <3>1
    <3>3. \A o \in Models : file.states[o] = Absent
      BY <1>5
    <3> QED BY <3>2, <3>3 DEF FileHolds
  <2>3. m \in Tracked(auth) /\ Blocks(auth.states[m], t) => FileHolds(file, m, t)
    <3> SUFFICES ASSUME m \in Tracked(auth), Blocks(auth.states[m], t)
                 PROVE  FileHolds(file, m, t)
      OBVIOUS
    <3> DEFINE c == auth.states[m]
    <3>1. c \in SoundCells /\ Flagged(c) /\ WindowInside(c) /\ file.states[m] = Record(c)
      BY <1>1, <1>2, <1>4, <1>6
    <3>2. Blocks(c, t)
      OBVIOUS
    <3> HIDE DEF c
    <3>3. c.retry > t
      BY <1>3, <3>1, <3>2 DEF Blocks
    <3>4. Record(c) # Absent /\ Record(c).retry > t
      BY <1>3, <3>1, <3>3
    <3> QED BY <3>1, <3>4 DEF FileHolds
  <2>4. file.states[m] # Absent /\ file.states[m].retry > t => Held(auth, m, t)
    <3> SUFFICES ASSUME file.states[m] # Absent, file.states[m].retry > t
                 PROVE  Held(auth, m, t)
      OBVIOUS
    <3> DEFINE c == auth.states[m]
    <3>1. m \in Tracked(auth) /\ c \in SoundCells /\ file.states[m] = Record(c)
      BY <1>1, <1>2, <1>5
    <3> HIDE DEF c
    <3>2. InForce(c) /\ c.retry > t
      BY <1>3, <3>1
    <3>3. Blocks(c, t)
      BY <3>2 DEF InForce, Blocks
    <3> QED BY <3>1, <3>3 DEF Held, c
  <2>5. ASSUME BackedFile(file), \A o \in Models : file.states[o] = Absent,
               file.cell # Absent, file.cell.retry > t
        PROVE  FALSE
    <3>1. CredentialScoped(file.cell.quota) /\ file.cell.retry <= file.cell.quota.recover
      BY <2>5 DEF BackedFile
    <3>2. file.cell.retry = auth.cell.retry /\ file.cell.quota = auth.cell.quota
      BY <1>1, <1>2, <1>3, <2>5
    <3>3. auth.cell.retry \in Nat /\ auth.cell.quota.recover \in Nat
      BY <1>1, <1>3
    <3> QED BY <2>1, <2>5, <3>1, <3>2, <3>3
  <2>6. Held(auth, m, t) => FileHolds(file, m, t)
    BY <1>8, <2>2, <2>3 DEF Held
  <2>7. BackedFile(file) /\ FileHolds(file, m, t) => Held(auth, m, t)
    BY <2>1, <2>4, <2>5 DEF FileHolds
  <2> QED BY <2>6, <2>7
<1> QED BY <1>7, <1>8

\* So is the credential that a restart makes of the records.
LEMMA RestartHolds ==
  ASSUME CooldownInv, ~coolingOff, SoundSave(file), NEW a,
         a = RestoreCooldownStates(FreshAuth, file), NEW m \in Models, NEW t \in Nat, t >= now
  PROVE  /\ a \in SoundAuths /\ ~Refused(a)
         /\ FileHolds(file, m, t) => Held(a, m, t)
         /\ BackedFile(file) /\ Held(a, m, t) => FileHolds(file, m, t)
<1>1. /\ now \in 1..MaxTime /\ now \in Nat /\ file \in SoundFiles
      /\ file.cell \in SoundRecords \cup {Absent}
      /\ \A o \in Models : file.states[o] \in SoundRecords \cup {Absent}
  BY Durations DEF CooldownInv, SoundFiles
<1>2. ASSUME NEW r \in SoundRecords
      PROVE  /\ r.retry \in Nat /\ r.quota.recover \in Nat /\ r # Absent
             /\ r.retry > t => Restorable(r)
             /\ WindowInside(r) /\ r.quota.recover > t => r.retry > t
  <2>1. r.quota \in Quota /\ r.retry \in 0..Horizon /\ r # Absent
    BY AbsentIsNoRecord DEF SoundRecords, RecordSet
  <2>2. r.quota.recover \in 0..Horizon
    BY <2>1, QuotaType
  <2>3. r.retry \in Nat /\ r.quota.recover \in Nat
    BY <2>1, <2>2, Durations
  <2>4. r.retry > t => Restorable(r)
    BY <1>1, <2>1, <2>3 DEF Restorable
  <2>5. WindowInside(r) /\ r.quota.recover > t => r.retry > t
    BY <1>1, <2>3 DEF WindowInside
  <2> QED BY <2>1, <2>3, <2>4, <2>5
<1>3. PICK b \in SoundAuths :
        /\ RestoredAs(b, Models, file)
        /\ a = IF Restorable(file.cell) THEN restoreCredential(b, Completed(file.cell)) ELSE b
  <2>1. \E b \in SoundAuths :
          /\ RestoredAs(b, Models, file)
          /\ RestoreCooldownStates(FreshAuth, file) =
               IF Restorable(file.cell) THEN restoreCredential(b, Completed(file.cell)) ELSE b
    BY <1>1, RestoredAfresh
  <2> QED BY <2>1
<1>4. /\ Tracked(b) = {o \in Models : Restorable(file.states[o])}
      /\ \A o \in Tracked(b) :
           /\ b.states[o].unavailable /\ b.states[o].retry = file.states[o].retry
           /\ b.states[o].quota.recover = file.states[o].quota.recover
      /\ b.cell.err = "none" /\ ~CredentialScoped(b.cell.quota)
      /\ Tracked(b) = {} => b.cell = CleanCell
  BY <1>3, Zenon DEF RestoredAs
<1>5. m \in Tracked(b) /\ Blocks(b.states[m], t) <=>
        file.states[m] # Absent /\ file.states[m].retry > t
  <2>1. ASSUME m \in Tracked(b), Blocks(b.states[m], t)
        PROVE  file.states[m] # Absent /\ file.states[m].retry > t
    <3>1. file.states[m] \in SoundRecords /\ WindowInside(file.states[m])
      BY <1>1, <1>4, <2>1 DEF Restorable, SoundSave
    <3> QED BY <1>2, <1>4, <2>1, <3>1 DEF Blocks
  <2>2. ASSUME file.states[m] # Absent, file.states[m].retry > t
        PROVE  m \in Tracked(b) /\ Blocks(b.states[m], t)
    <3>1. file.states[m] \in SoundRecords
      BY <1>1, <2>2
    <3>2. m \in Tracked(b)
      BY <1>2, <1>4, <2>2, <3>1
    <3> QED BY <1>4, <2>2, <3>2 DEF Blocks
  <2> QED BY <2>1, <2>2
<1>6. CASE ~Restorable(file.cell)
  <2>1. a = b
    BY <1>3, <1>6
  <2>2. ~(file.cell # Absent /\ file.cell.retry > t)
    BY <1>1, <1>2, <1>6
  <2>3. ~(/\ file.cell # Absent /\ CredentialScoped(file.cell.quota)
          /\ file.cell.quota.recover > t)
    BY <1>1, <1>2, <2>2 DEF SoundSave
  <2>4. Tracked(b) = {} => ~Blocks(b.cell, t)
    <3>1. CleanCell.retry = 0 /\ CleanCell.quota.recover = 0
      BY DEF CleanCell, CleanQuota, Zero
    <3> QED BY <1>4, <3>1 DEF Blocks
  <2>5. ~CredentialQuotaOpen(b, t)
    BY <1>4 DEF CredentialQuotaOpen, CredentialScoped
  <2>6. Held(b, m, t) <=> FileHolds(file, m, t)
    BY <1>5, <2>2, <2>3, <2>4, <2>5 DEF Held, FileHolds
  <2>7. ~Refused(b)
    BY <1>4 DEF Refused
  <2> QED BY <2>1, <2>6, <2>7
<1>7. CASE Restorable(file.cell)
  <2> DEFINE r == file.cell
             d == restoreCredential(b, Completed(r))
  <2>1. a = d
    BY <1>3, <1>7
  <2>2. r \in SoundRecords /\ WindowInside(r) /\ r.err # "unauthorized"
    BY <1>1, <1>7 DEF Restorable, SoundSave
  <2>3. /\ d \in SoundAuths /\ Tracked(d) = Tracked(b) /\ d.states = b.states
        /\ d.cell.unavailable /\ d.cell.err = r.err
        /\ d.cell.retry = r.retry /\ d.cell.quota = r.quota
    BY <1>1, <1>7, RestoredCredentialAs
  <2> HIDE DEF d
  <2>4. ~Refused(d)
    BY <2>2, <2>3 DEF Refused
  <2>5. CredentialQuotaOpen(d, t) <=> CredentialScoped(r.quota) /\ r.quota.recover > t
    BY <2>3 DEF CredentialQuotaOpen, CredentialScoped
  <2>6. Blocks(d.cell, t) <=> r.retry > t
    BY <1>2, <2>2, <2>3 DEF Blocks
  <2>7. m \in Tracked(d) /\ Blocks(d.states[m], t) <=>
          file.states[m] # Absent /\ file.states[m].retry > t
    BY <1>5, <2>3
  <2>8. (\A o \in Models : file.states[o] = Absent) => Tracked(d) = {}
    BY <1>4, <2>3 DEF Restorable
  <2>9. FileHolds(file, m, t) => Held(d, m, t)
    BY <2>5, <2>6, <2>7, <2>8 DEF FileHolds, Held
  <2>10. ASSUME BackedFile(file), Tracked(d) = {}, r.retry > t
         PROVE  CredentialScoped(r.quota) /\ r.quota.recover > t
    <3>1. r # Absent /\ r.retry \in Nat /\ r.quota.recover \in Nat
      BY <1>2, <2>2
    <3>2. CASE CredentialScoped(r.quota)
      <4>1. r.retry <= r.quota.recover
        BY <2>10, <3>1, <3>2 DEF BackedFile
      <4> QED BY <2>10, <3>1, <3>2, <4>1
    <3>3. CASE ~CredentialScoped(r.quota)
      <4>1. PICK o \in Models : file.states[o] # Absent /\ file.states[o].retry >= r.retry
        BY <2>10, <3>1, <3>3 DEF BackedFile
      <4>2. file.states[o] \in SoundRecords
        BY <1>1, <4>1
      <4>3. file.states[o].retry > t
        BY <1>2, <2>10, <3>1, <4>1, <4>2
      <4>4. Restorable(file.states[o])
        BY <1>2, <4>2, <4>3
      <4>5. o \in Tracked(d)
        BY <1>4, <2>3, <4>4
      <4> QED BY <2>10, <4>5
    <3> QED BY <3>2, <3>3
  <2>11. BackedFile(file) /\ Held(d, m, t) => FileHolds(file, m, t)
    <3>1. r # Absent
      BY <1>2, <2>2
    <3> QED BY <2>5, <2>6, <2>7, <2>10, <3>1 DEF FileHolds, Held
  <2> QED BY <2>1, <2>3, <2>4, <2>9, <2>11
<1> QED BY <1>6, <1>7

\* The blocks a crash interrupted are in the file until the restart, and in
\* force after it.
SavedBlocks == \A m \in Models, t \in now..Horizon :
  /\ t \in atCrash.blocked[m] => FileHolds(file, m, t)
  /\ ~ModelLess /\ FileHolds(file, m, t) => t \in atCrash.blocked[m]
RestoredBlocks == \A m \in Models, t \in now..Horizon :
  /\ t \in atCrash.blocked[m] => t \in BlockedTimes(m)
  /\ ~ModelLess /\ t \in BlockedTimes(m) => t \in atCrash.blocked[m]
Lossless == atCrash.saved /\ ~atCrash.unauthorized
CrashInv ==
  atCrash # Absent =>
    /\ reload = "idle"
    /\ Lossless => ~coolingOff /\ IF up THEN RestoredBlocks
                                  ELSE SoundSave(file) /\ SavedBlocks

RestartInv == /\ CooldownInv /\ CauseInv /\ FlagInv /\ CrashInv
              /\ ~ModelLess => BackedInv

LEMMA CrashSaves ==
  ASSUME RestartInv, Crash
  PROVE  CrashInv'
<1> DEFINE blocked == [m \in Models |-> BlockedTimes(m)]
           saved == /\ ~coolingOff /\ file = cooldownStateRecords(auth)
                    /\ \A m \in Tracked(auth) : WindowInside(auth.states[m])
                    /\ WindowInside(auth.cell)
<1>1. /\ CooldownInv /\ CauseInv /\ FlagInv /\ (~ModelLess => BackedFile(file))
      /\ auth \in SoundAuths /\ now \in Nat
      /\ \A t \in now..Horizon : t \in Nat /\ t >= now
  BY Durations DEF RestartInv, BackedInv, CooldownInv
<1>2. /\ UNCHANGED <<now, coolingOff, file>> /\ ~up' /\ reload' = "idle"
      /\ atCrash' = [blocked |-> blocked, unauthorized |-> Refused(auth),
                     saved |-> saved]
  BY DEF Crash
<1>3. /\ atCrash'.blocked = blocked /\ atCrash'.saved = saved
      /\ atCrash'.unauthorized = Refused(auth)
      /\ \A m \in Models : blocked[m] = BlockedTimes(m)
  BY <1>2
<1>4. ASSUME saved, ~Refused(auth)
      PROVE  ~coolingOff /\ SoundSave(file) /\ SavedBlocks'
  <2>1. /\ ~coolingOff /\ file = cooldownStateRecords(auth)
        /\ \A m \in Tracked(auth) : WindowInside(auth.states[m])
        /\ WindowInside(auth.cell)
    BY <1>4
  <2> HIDE DEF blocked, saved
  <2>2. ASSUME NEW m \in Models, NEW t \in now..Horizon
        PROVE  /\ t \in BlockedTimes(m) => FileHolds(file, m, t)
               /\ ~ModelLess /\ FileHolds(file, m, t) => t \in BlockedTimes(m)
    <3>1. t \in BlockedTimes(m) <=> Held(auth, m, t)
      BY <1>1, <1>4, BlockedWhen DEF BlockedTimes
    <3>2. /\ Held(auth, m, t) => FileHolds(file, m, t)
          /\ BackedFile(file) /\ FileHolds(file, m, t) => Held(auth, m, t)
      BY <1>1, <2>1, SavedHolds
    <3> QED BY <1>1, <3>1, <3>2
  <2>3. SavedBlocks'
    <3>1. SavedBlocks' <=> \A m \in Models, t \in now..Horizon :
            /\ t \in atCrash'.blocked[m] => FileHolds(file, m, t)
            /\ ~ModelLess /\ FileHolds(file, m, t) => t \in atCrash'.blocked[m]
      BY <1>2 DEF SavedBlocks
    <3> QED BY <1>3, <2>2, <3>1
  <2>4. ASSUME NEW c \in SoundCells, WindowInside(c), Record(c) # Absent
        PROVE  WindowInside(Record(c)) /\ c.unavailable /\ Record(c).err = c.err
    BY <2>4, RecordOf DEF WindowInside, InForce
  <2>5. file.cell # Absent => WindowInside(file.cell) /\ file.cell.err # "unauthorized"
    <3> SUFFICES ASSUME file.cell # Absent
                 PROVE  WindowInside(file.cell) /\ file.cell.err # "unauthorized"
      OBVIOUS
    <3>1. file.cell = Record(auth.cell) /\ auth.cell \in SoundCells
      BY <1>1, <2>1, SoundAuthFacts DEF cooldownStateRecords
    <3>2. WindowInside(file.cell) /\ auth.cell.unavailable /\ file.cell.err = auth.cell.err
      BY <2>1, <2>4, <3>1
    <3>3. auth.cell.err = "unauthorized" => auth.cell.failed
      BY <1>1 DEF CauseInv, Caused
    <3> QED BY <1>4, <3>2, <3>3 DEF Refused
  <2>6. ASSUME NEW m \in Models, file.states[m] # Absent PROVE WindowInside(file.states[m])
    <3>1. file.states[m] = Record(State(auth, m))
      BY <2>1 DEF cooldownStateRecords
    <3>2. State(auth, m) \in SoundCells /\ WindowInside(State(auth, m))
      <4>1. CASE m \in Tracked(auth)
        BY <1>1, <2>1, <4>1, SoundAuthFacts DEF State, Tracked
      <4>2. CASE m \notin Tracked(auth)
        BY <1>1, <4>2, SoundAuthFacts, CleanWithin DEF State, Tracked, CooldownInv
      <4> QED BY <4>1, <4>2
    <3> QED BY <2>4, <2>6, <3>1, <3>2
  <2> QED BY <2>1, <2>3, <2>5, <2>6 DEF SoundSave
<1> HIDE DEF saved, blocked
<1>5. SoundSave(file) => SoundSave(file)'
  BY <1>2 DEF SoundSave, WindowInside
<1>6. Lossless' => ~coolingOff' /\ SoundSave(file)' /\ SavedBlocks'
  BY <1>2, <1>3, <1>4, <1>5 DEF Lossless
<1> QED BY <1>2, <1>6 DEF CrashInv

LEMMA RestartRestores ==
  ASSUME RestartInv, Restart
  PROVE  CrashInv'
<1>1. /\ CooldownInv /\ CrashInv /\ (~ModelLess => BackedFile(file))
      /\ now \in Nat /\ \A t \in now..Horizon : t \in Nat /\ t >= now
  BY Durations DEF RestartInv, BackedInv, CooldownInv
<1>2. /\ UNCHANGED <<now, coolingOff, file, reload, atCrash>> /\ ~up /\ up'
      /\ auth' = RestoreCooldownStates(FreshAuth, file)
  BY DEF Restart, CooldownInv
<1>3. ASSUME atCrash # Absent, Lossless PROVE ~coolingOff /\ RestoredBlocks'
  <2>1. ~coolingOff /\ SoundSave(file) /\ SavedBlocks
    BY <1>1, <1>2, <1>3 DEF CrashInv
  <2>2. ASSUME NEW m \in Models, NEW t \in now..Horizon
        PROVE  /\ t \in atCrash.blocked[m] => t \in BlockedTimes(m)'
               /\ ~ModelLess /\ t \in BlockedTimes(m)' => t \in atCrash.blocked[m]
    <3>1. /\ auth' \in SoundAuths /\ ~Refused(auth')
          /\ FileHolds(file, m, t) => Held(auth', m, t)
          /\ BackedFile(file) /\ Held(auth', m, t) => FileHolds(file, m, t)
      BY <1>1, <1>2, <2>1, RestartHolds
    <3>2. t \in BlockedTimes(m)' <=> isAuthBlockedForModel(auth', LastingToken, m, t) # Zero
      BY <1>2 DEF BlockedTimes
    <3>3. isAuthBlockedForModel(auth', LastingToken, m, t) # Zero <=> Held(auth', m, t)
      BY <1>1, <3>1, BlockedWhen
    <3>4. /\ t \in atCrash.blocked[m] => FileHolds(file, m, t)
          /\ ~ModelLess /\ FileHolds(file, m, t) => t \in atCrash.blocked[m]
      BY <2>1 DEF SavedBlocks
    <3> QED BY <1>1, <3>1, <3>2, <3>3, <3>4
  <2>3. RestoredBlocks' <=> \A m \in Models, t \in now..Horizon :
          /\ t \in atCrash.blocked[m] => t \in BlockedTimes(m)'
          /\ ~ModelLess /\ t \in BlockedTimes(m)' => t \in atCrash.blocked[m]
    BY <1>2 DEF RestoredBlocks
  <2> QED BY <2>1, <2>2, <2>3
<1>4. ASSUME atCrash' # Absent, Lossless' PROVE ~coolingOff' /\ RestoredBlocks'
  BY <1>2, <1>3, <1>4 DEF Lossless
<1>5. atCrash' # Absent => reload' = "idle"
  BY <1>1, <1>2 DEF CrashInv
<1> QED BY <1>2, <1>4, <1>5 DEF CrashInv

\* Time passes.
LEMMA TickKeepsBlocks ==
  ASSUME RestartInv, Tick
  PROVE  CrashInv'
<1>1. /\ CrashInv /\ now \in Nat /\ now' = now + 1 /\ Horizon \in Nat
      /\ UNCHANGED <<auth, coolingOff, file, reload, up, atCrash>>
  BY Durations DEF RestartInv, CooldownInv, Tick
<1>2. \A t \in now'..Horizon : t \in now..Horizon
  BY <1>1
<1>3. SavedBlocks => SavedBlocks'
  <2>1. SavedBlocks' <=> \A m \in Models, t \in now'..Horizon :
          /\ t \in atCrash.blocked[m] => FileHolds(file, m, t)
          /\ ~ModelLess /\ FileHolds(file, m, t) => t \in atCrash.blocked[m]
    BY <1>1 DEF SavedBlocks
  <2> QED BY <1>2, <2>1 DEF SavedBlocks
<1>4. RestoredBlocks => RestoredBlocks'
  <2>1. RestoredBlocks' <=> \A m \in Models, t \in now'..Horizon :
          /\ t \in atCrash.blocked[m] => t \in BlockedTimes(m)'
          /\ ~ModelLess /\ t \in BlockedTimes(m)' => t \in atCrash.blocked[m]
    BY <1>1 DEF RestoredBlocks
  <2>2. \A m \in Models, t \in now'..Horizon : t \in BlockedTimes(m)' <=> t \in BlockedTimes(m)
    BY <1>1, <1>2 DEF BlockedTimes
  <2> QED BY <1>2, <2>1, <2>2 DEF RestoredBlocks
<1>5. SoundSave(file) => SoundSave(file)'
  <2>1. ASSUME NEW r \in SoundRecords, WindowInside(r), r.quota.recover > now'
        PROVE  r.retry >= r.quota.recover
    <3>1. r.quota \in Quota
      BY DEF SoundRecords, RecordSet
    <3>2. r.quota.recover \in 0..Horizon
      BY <3>1, QuotaType
    <3>3. r.quota.recover > now
      BY <1>1, <2>1, <3>2
    <3> QED BY <2>1, <3>3 DEF WindowInside
  <2>2. /\ file.cell \in SoundRecords \cup {Absent}
        /\ \A m \in Models : file.states[m] \in SoundRecords \cup {Absent}
    BY DEF RestartInv, CooldownInv, SoundFiles
  <2>3. SoundSave(file)' <=>
          /\ file.cell # Absent =>
               /\ file.cell.quota.recover > now' => file.cell.retry >= file.cell.quota.recover
               /\ file.cell.err # "unauthorized"
          /\ \A m \in Models : file.states[m] # Absent =>
               (file.states[m].quota.recover > now'
                  => file.states[m].retry >= file.states[m].quota.recover)
    BY <1>1 DEF SoundSave, WindowInside
  <2> QED BY <2>1, <2>2, <2>3 DEF SoundSave
<1>6. atCrash' # Absent => atCrash # Absent /\ reload' = "idle"
  BY <1>1 DEF CrashInv
<1>7. ASSUME atCrash' # Absent, Lossless'
      PROVE  ~coolingOff' /\ IF up' THEN RestoredBlocks' ELSE SoundSave(file)' /\ SavedBlocks'
  <2>1. atCrash # Absent /\ Lossless
    BY <1>1, <1>7 DEF Lossless
  <2>2. ~coolingOff /\ IF up THEN RestoredBlocks ELSE SoundSave(file) /\ SavedBlocks
    BY <1>1, <2>1 DEF CrashInv
  <2> QED BY <1>1, <1>3, <1>4, <1>5, <2>2
<1> QED BY <1>6, <1>7 DEF CrashInv

LEMMA RestartPreserved == RestartInv /\ [Next]_vars => RestartInv'
<1> SUFFICES ASSUME RestartInv, [Next]_vars PROVE RestartInv'
  OBVIOUS
<1>1. /\ CooldownInv /\ CauseInv /\ FlagInv /\ CrashInv /\ (~ModelLess => BackedInv)
      /\ [Next]_vars
  BY DEF RestartInv
<1>2. CooldownInv' /\ CauseInv' /\ FlagInv'
  BY <1>1, InvPreserved, CausePreserved, FlagPreserved
<1>3. (~ModelLess => BackedInv)'
  BY <1>1, BackedPreserved
<1>4. ASSUME atCrash' = Absent PROVE CrashInv'
  BY <1>4 DEF CrashInv
<1>5. ASSUME UNCHANGED <<now, auth, coolingOff, file, reload, up, atCrash>> PROVE CrashInv'
  BY <1>1, <1>5 DEF CrashInv, Lossless, SoundSave, SavedBlocks, RestoredBlocks, FileHolds,
     WindowInside, BlockedTimes
<1>6. ASSUME NEW a, Outcome(a) PROVE CrashInv'
  BY <1>4, <1>6 DEF Outcome
<1>7. ASSUME \/ \E m \in Models : Success(m)
             \/ \E m \in Models, f \in Failures : Failure(m, f)
             \/ SuccessWithoutModel \/ \E f \in Failures : FailureWithoutModel(f)
             \/ ResetQuota
      PROVE  CrashInv'
  <2>1. CASE \E m \in Models : Success(m)
    BY <1>6, <2>1, Zenon DEF Success
  <2>2. CASE \E m \in Models, f \in Failures : Failure(m, f)
    BY <1>6, <2>2, FailureIs
  <2>3. CASE SuccessWithoutModel \/ \E f \in Failures : FailureWithoutModel(f)
    BY <1>6, <2>3, Zenon DEF SuccessWithoutModel, FailureWithoutModel
  <2>4. CASE ResetQuota
    BY <1>6, <2>4, Zenon DEF ResetQuota
  <2> QED BY <1>7, <2>1, <2>2, <2>3, <2>4
<1>8. ASSUME persistCooldownStates PROVE CrashInv'
  <2>1. /\ UNCHANGED <<now, auth, coolingOff, reload, up, atCrash>> /\ up
    BY <1>8 DEF persistCooldownStates
  <2>2. RestoredBlocks' <=> RestoredBlocks
    BY <2>1 DEF RestoredBlocks, BlockedTimes
  <2> QED BY <1>1, <2>1, <2>2 DEF CrashInv, Lossless
<1>9. ASSUME NEW off \in BOOLEAN, StoreConfig(off) PROVE CrashInv'
  BY <1>4, <1>9 DEF StoreConfig
<1>10. ASSUME \/ clearDisabledCooldownStates \/ ApplyConfigWithCooldownStateStore
              \/ LoadRecords \/ MergeRecords
       PROVE  CrashInv'
  <2>1. atCrash' = atCrash /\ reload # "idle"
    BY <1>10 DEF clearDisabledCooldownStates, ApplyConfigWithCooldownStateStore, LoadRecords,
       MergeRecords
  <2> QED BY <1>1, <1>4, <2>1 DEF CrashInv
<1>11. ASSUME Crash PROVE CrashInv'
  BY <1>11, CrashSaves
<1>12. ASSUME Restart PROVE CrashInv'
  BY <1>12, RestartRestores
<1>13. ASSUME Tick PROVE CrashInv'
  BY <1>13, TickKeepsBlocks
<1>14. ASSUME UNCHANGED vars PROVE CrashInv'
  BY <1>5, <1>14 DEF vars
<1>15. CrashInv'
  BY <1>1, <1>7, <1>8, <1>9, <1>10, <1>11, <1>12, <1>13, <1>14 DEF Next
<1> QED BY <1>2, <1>3, <1>15 DEF RestartInv

\* A crash after the file was written loses no block: after the restart every
\* model is blocked exactly when it would have been, and at least so when the
\* credential may also have failed without a model.
THEOREM RestartKeepsEveryBlock == Spec => []RestartKeepsBlocks
<1>1. Init => RestartInv
  <2> SUFFICES ASSUME Init PROVE RestartInv
    OBVIOUS
  <2>1. CooldownInv /\ auth = FreshAuth /\ atCrash = Absent
    BY InvInitially DEF Init
  <2>2. CauseInv
    BY <2>1 DEF CauseInv, Caused, FreshAuth, CleanCell
  <2>3. FlagInv /\ BackedInv
    BY <2>1, CleanFlagged, FreshBacked DEF FlagInv, BackedInv, Init
  <2> QED BY <2>1, <2>2, <2>3 DEF RestartInv, CrashInv
<1>2. RestartInv => RestartKeepsBlocks
  <2> SUFFICES ASSUME RestartInv, up, atCrash # Absent, atCrash.saved, ~atCrash.unauthorized,
                      NEW m \in Models
               PROVE  LET held == atCrash.blocked[m] \cap now..Horizon
                      IN  /\ held \subseteq BlockedTimes(m)
                          /\ ~ModelLess => BlockedTimes(m) = held
    BY DEF RestartKeepsBlocks
  <2>1. RestoredBlocks
    BY DEF RestartInv, CrashInv, Lossless
  <2>2. BlockedTimes(m) \subseteq now..Horizon
    BY DEF BlockedTimes
  <2> QED BY <2>1, <2>2 DEF RestoredBlocks
<1> QED BY <1>1, <1>2, RestartPreserved, PTL DEF Spec

=============================================================================
