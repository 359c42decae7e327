--------------------------- MODULE ExecutionRetry ---------------------------
(***************************************************************************)
(* One request: rounds over the credentials, the upstream models of each   *)
(* (its pool), the refresh and second call after a 401, the wait for the   *)
(* nearest cooldown between rounds, the reading of a stream up to its      *)
(* first payload, and the handler, which asks for a new stream as long as  *)
(* the client has seen none of it.  Other requests cool and free the same  *)
(* credentials, and credentials come and go, between any two steps.        *)
(***************************************************************************)
EXTENDS Integers, FiniteSets

CONSTANTS Auths,
          Pool,                \* [Auths -> SUBSET Nat]: upstream models of the route;
                               \* {0}, the route's own name, without a pool
          RequestRetry,        \* [Auths -> Nat]: request-retry, with overrides
          CredentialCaps,      \* values of max-retry-credentials, 0: no cap
          MaxRetryInterval,    \* the longest wait for a cooldown
          CoolFor,             \* [Cooling -> Nat]: how long a failure blocks
          MinQuotaCooldownFloor,
          BootstrapRetries,    \* streams the handler may ask for again
          CoolingDisabled, ClaudeOAuth, Preparing, \* subsets of Auths
          Contended,           \* bound: credentials others use, remove and register
          MaxOthers            \* bound on what the others do

VARIABLES kind,                \* "call" (Execute, ExecuteCount) or "stream"
          maxRetryCredentials, \* as the request found it
          auths, authEpochs,   \* Manager.auths: those registered; their epochs
          state,               \* what the manager knows of each credential
          r,                   \* the request
          cancelled,           \* ctx.Err() # nil
          delivered,           \* the client has a payload of the stream
          retried,             \* bootstrapRetries of the handler
          visits,              \* history: rounds of this execution that used a credential
          owed,                \* history: calls begun and not reported yet
          others

managerVars == <<auths, authEpochs, state>>
historyVars == <<visits, owed>>
vars == <<kind, maxRetryCredentials, managerVars, r, cancelled, delivered, retried, historyVars, others>>

\* Failures by what the code does about them: 401; 429; 429 of the whole
\* credential; 403, 408 and 5xx; other statuses that cool (402, 404, an empty
\* stream); a fault of the request; a broken connection or cancelled context.
Cooling == {"unauthorized", "quota", "credentialQuota", "transient", "denied"}
Failures == Cooling \cup {"invalid", "dropped"}
\* What is kept of an error: its status as far as the code asks for it again.
\* refused: an interceptor terminated the request.
Statuses == {"429", "5xx", "400", "other", "refused", "none"}
StatusOf(f) == CASE f \in {"quota", "credentialQuota"} -> "429"
                 [] f = "transient" -> "5xx"
                 [] f = "invalid" -> "400"
                 [] OTHER -> "other"

ASSUME RetryAssumption ==
  /\ Pool \in [Auths -> SUBSET Nat]
  /\ RequestRetry \in [Auths -> Nat] /\ CoolFor \in [Cooling -> Nat]
  /\ CredentialCaps \cup {MaxRetryInterval, MinQuotaCooldownFloor, BootstrapRetries,
      MaxOthers} \subseteq Nat
  /\ CoolingDisabled \cup ClaudeOAuth \cup Preparing \cup Contended \subseteq Auths

Larger(m, n) == IF m < n THEN n ELSE m
Smaller(m, n) == IF m < n THEN m ELSE n
Models == {0} \cup UNION {Pool[c] : c \in Auths}

isCredentialRetryRoundStatus(e) == e \in {"429", "5xx"}

(***************************************************************************)
(* What the manager knows                                                  *)
(***************************************************************************)
\* bad: hasUnauthorizedAuthFailure.  wide: time left of a quota of the whole
\* credential.  cool: time left of each model's cooldown.  why: the failure that
\* blocks the route's own name.  known: the models with a state.
Credential == [bad : BOOLEAN, wide : Nat, cool : [Models -> Nat], why : Statuses,
               known : SUBSET Models]
Fresh == [bad |-> FALSE, wide |-> 0, cool |-> [m \in Models |-> 0], why |-> "none", known |-> {}]

\* The selector reads the state of the route's own name.  Outcomes of a pool
\* name its members, so it selects a credential whose whole pool is cooling.
BlockedFor(c) == Larger(state[c].wide, state[c].cool[0])
isAuthBlockedForModel(c) == state[c].bad \/ BlockedFor(c) > 0

filterExecutionModels(c) ==
  IF state[c].bad \/ state[c].wide > 0 THEN {} ELSE {m \in Pool[c] : state[c].cool[m] = 0}

\* MarkResult, reduced to what blocks the credential.  A success changes nothing
\* during a quota of the whole credential.  A 401 blocks the credential for good
\* if it is unavailable: no model of it is known to work.
Cause(s, m, e) == IF m = 0 THEN e ELSE s.why
Success(s, m) ==
  IF s.wide > 0 THEN s
  ELSE [s EXCEPT !.bad = FALSE, !.cool[m] = 0, !.why = Cause(s, m, "none"), !.known = @ \cup {m}]

Cooled(s, m, e) ==
  LET t == [s EXCEPT !.cool[m] = Larger(@, CoolFor[e]),
                     !.why = Cause(s, m, StatusOf(e)), !.known = @ \cup {m}]
  IN [t EXCEPT !.bad = e = "unauthorized" /\ (t.wide > 0 \/ \A n \in t.known : t.cool[n] > 0)]

Failure(c, s, m, e) ==
  IF e \notin Cooling THEN s
  ELSE IF c \in CoolingDisabled THEN [s EXCEPT !.bad = FALSE, !.known = @ \cup {m}]
  ELSE IF e = "credentialQuota"
    THEN [s EXCEPT !.bad = FALSE, !.wide = Larger(@, CoolFor[e]), !.known = @ \cup {m}]
    ELSE Cooled(s, m, e)

MarkResult(c, m, e) ==
  state' = IF c \in auths
             THEN [state EXCEPT ![c] = IF e = "none" THEN Success(@, m) ELSE Failure(c, @, m, e)]
             ELSE state

\* retryRoundAvailabilityForAuth: free, or blocked by a deadline and by a
\* failure that another round may cure.
retryRoundAvailabilityForAuth(c) ==
  \/ ~isAuthBlockedForModel(c)
  \/ ~state[c].bad /\ (state[c].wide > 0 \/ isCredentialRetryRoundStatus(state[c].why))

\* The credentials for which the next round may be worth it.
RetryCandidates ==
  {c \in auths : r.attempt < RequestRetry[c] /\ retryRoundAvailabilityForAuth(c)}

closestCooldownWait(c, e) ==
  IF c \in r.picked /\ c \notin CoolingDisabled /\ e = "429"
    THEN Larger(BlockedFor(c), MinQuotaCooldownFloor)
    ELSE BlockedFor(c)

Nearest == {c \in RetryCandidates : \A d \in RetryCandidates :
              closestCooldownWait(c, r.err) <= closestCooldownWait(d, r.err)}

\* Seeded fault: a round too many.
LateExclusions(attempt) ==
  IF attempt = 0 THEN {} ELSE {c \in auths : RequestRetry[c] + 1 < attempt}

\* The credentials whose limit does not reach this round.
requestRetryRoundExclusions(attempt) ==
  IF attempt = 0 THEN {} ELSE {c \in auths : RequestRetry[c] < attempt}

(***************************************************************************)
(* The request                                                             *)
(***************************************************************************)
NoOne == "nobody"
\* attempted is the code's: credentials with a model to call; picked the rest of
\* tried beside excluded, and what withAttemptedAuthTracker collects.
\* past: the error of an earlier round, if it came from reading a stream.
Round(attempt, excluded, past) ==
  [at |-> "pick", attempt |-> attempt, excluded |-> excluded, picked |-> {}, attempted |-> {},
   auth |-> NoOne, epoch |-> 0, models |-> {}, model |-> 0, refreshed |-> FALSE,
   err |-> "none", upstream |-> FALSE, boot |-> FALSE, past |-> past, wait |-> 0, answer |-> "none"]

Init ==
  /\ kind \in {"call", "stream"} /\ maxRetryCredentials \in CredentialCaps
  /\ auths = Auths /\ authEpochs = [c \in Auths |-> 1]
  /\ state = [c \in Auths |-> Fresh]
  /\ r = Round(0, {}, "none")
  /\ cancelled = FALSE /\ delivered = FALSE /\ retried = 0
  /\ visits = [c \in Auths |-> 0] /\ owed = 0
  /\ others = 0

At(place) == r.at = place
\* Variables that are local to one turn of a loop are reset as it is left.
AtPick(s) == [s EXCEPT !.at = "pick", !.auth = NoOne, !.epoch = 0, !.models = {}, !.refreshed = FALSE]
Ended(answer) == [Round(0, {}, "none") EXCEPT !.at = "ended", !.answer = answer]
requestVars == <<kind, maxRetryCredentials, cancelled, delivered, retried>>

\* preferredExecutionAttemptError keeps the last error of an upstream call over
\* that of a later preparation.  boot: it is a streamBootstrapError.
WithError(e, upstream, boot) ==
  IF upstream \/ ~r.upstream
    THEN [r EXCEPT !.err = e, !.upstream = upstream, !.boot = boot]
    ELSE r

tried == r.excluded \cup r.picked
Candidates == {c \in auths \ tried : ~isAuthBlockedForModel(c)}
CapReached == maxRetryCredentials > 0 /\ Cardinality(r.attempted) >= maxRetryCredentials

\* A credential is selected; without a model left to call the loop goes on.
pickNextMixed(c) ==
  /\ At("pick") /\ ~CapReached /\ c \in Candidates
  /\ LET models == filterExecutionModels(c)
         picked == [r EXCEPT !.picked = @ \cup {c}]
     IN IF models = {}
          THEN r' = picked /\ UNCHANGED visits
          ELSE /\ r' = [picked EXCEPT !.at = "prepare", !.attempted = @ \cup {c}, !.auth = c,
                          !.epoch = authEpochs[c], !.models = models, !.refreshed = FALSE]
               /\ visits' = [visits EXCEPT ![c] = Smaller(@ + 1, RequestRetry[c] + 2)]
  /\ UNCHANGED <<requestVars, managerVars, owed, others>>

\* The error of the selector when it finds nobody.
PickError ==
  LET left == auths \ tried
      OnQuota(c) == ~state[c].bad /\ (state[c].wide > 0 \/ state[c].why = "429")
  IN IF left = {} THEN "other"
     ELSE IF \A c \in left : OnQuota(c) THEN "429"
     ELSE IF \A c \in left : state[c].bad THEN "5xx"
     ELSE "other"

(***************************************************************************)
(* The end of a round.  retryAllowed and closestCooldownWait take          *)
(* Manager.mu one after the other.                                         *)
(***************************************************************************)
\* preferredUpstreamErr: upstream errors win over those of later rounds.
Preferred == IF ~r.upstream THEN r.past ELSE IF r.boot THEN r.err ELSE "none"

\* What becomes of an error no further round follows: ctx.Err() first, then a
\* stream that holds the error if reading a stream failed, then the error.
GiveUp ==
  IF cancelled THEN Ended("cancelled")
  ELSE IF Preferred # "none" THEN [Round(0, {}, "none") EXCEPT !.at = "handler", !.err = Preferred]
  ELSE Ended("error")

RoundEnds ==
  /\ At("pick") /\ (CapReached \/ Candidates = {})
  /\ LET e == IF r.err # "none" THEN r.err ELSE IF CapReached THEN "other" ELSE PickError
     IN r' = IF isCredentialRetryRoundStatus(e) /\ RetryCandidates # {}
               THEN [r EXCEPT !.at = "closest", !.err = e, !.past = Preferred]
               ELSE IF e = "refused" THEN Ended("error") ELSE GiveUp
  /\ UNCHANGED <<requestVars, managerVars, historyVars, others>>

shouldRetryAfterError ==
  /\ At("closest")
  /\ \E wait \in IF RetryCandidates # {}
                   THEN {closestCooldownWait(c, r.err) : c \in Nearest}
                   ELSE {0} \cup {CoolFor[f] : f \in {g \in Cooling : StatusOf(g) = r.err}} :
       r' = IF wait > MaxRetryInterval THEN GiveUp
                                       ELSE [r EXCEPT !.at = "wait", !.err = "none", !.wait = wait]
  /\ UNCHANGED <<requestVars, managerVars, historyVars, others>>

\* waitForCooldown is over and the next round begins.
NextRound ==
  /\ At("wait") /\ r.wait = 0
  /\ r' = Round(r.attempt + 1, requestRetryRoundExclusions(r.attempt + 1), r.past)
  /\ UNCHANGED <<requestVars, managerVars, historyVars, others>>

WaitCancelled ==
  /\ At("wait") /\ r.wait > 0 /\ cancelled
  /\ r' = Ended("cancelled")
  /\ UNCHANGED <<requestVars, managerVars, historyVars, others>>

(***************************************************************************)
(* prepareRequestAuth                                                      *)
(***************************************************************************)
NotPrepared ==
  /\ At("prepare")
  /\ r' = [r EXCEPT !.at = "first"]
  /\ UNCHANGED <<requestVars, managerVars, historyVars, others>>

\* The base is the credential as it is now, or the selected copy if it is gone.
PrepareBegins ==
  /\ At("prepare") /\ r.auth \in Preparing
  /\ r' = [r EXCEPT !.at = "preparing", !.epoch = IF r.auth \in auths THEN authEpochs[r.auth] ELSE @]
  /\ UNCHANGED <<requestVars, managerVars, historyVars, others>>

\* UpdatePreparedAuth has nothing to save to if the credential is gone, and
\* refuses with a nil credential, dereferenced next, if another took its id.
Prepared ==
  /\ At("preparing")
  /\ r' = IF r.auth \in auths /\ authEpochs[r.auth] # r.epoch
            THEN Ended("panic")
            ELSE [r EXCEPT !.at = "first"]
  /\ UNCHANGED <<requestVars, managerVars, historyVars, others>>

\* The cancellation of a request is not held against a Claude OAuth credential.
claudeOAuthRequestCancellation == cancelled /\ r.auth \in ClaudeOAuth

PrepareFails(e) ==
  /\ At("preparing")
  /\ IF claudeOAuthRequestCancellation
       THEN r' = Ended("cancelled") /\ UNCHANGED state
       ELSE /\ r' = AtPick(WithError(StatusOf(e), FALSE, FALSE))
            /\ MarkResult(r.auth, 0, e)
  /\ UNCHANGED <<requestVars, auths, authEpochs, historyVars, others>>

(***************************************************************************)
(* The upstream calls of one credential                                    *)
(***************************************************************************)
\* An interceptor refuses the request before the first call of a credential.
\* That ends a call; a stream goes on to the next credential, unless the
\* refusal counts as a fault of the request.
Intercepted ==
  /\ At("first")
  /\ \/ r' = Ended(IF kind = "stream" /\ cancelled THEN "cancelled" ELSE "error")
     \/ kind = "stream" /\ ~cancelled /\ r' = AtPick(WithError("refused", FALSE, FALSE))
  /\ UNCHANGED <<requestVars, managerVars, historyVars, others>>

\* The next model of the pool, in whatever order the pool has.  A stream looks
\* at the context before it is opened.
CallUpstream(m) ==
  /\ At("first") \/ At("next")
  /\ m \in r.models /\ ~(kind = "stream" /\ cancelled)
  /\ r' = [r EXCEPT !.at = "call", !.model = m]
  /\ owed' = owed + 1
  /\ UNCHANGED <<requestVars, managerVars, visits, others>>

StreamNotOpened ==
  /\ At("first") \/ At("next")
  /\ r.models # {} /\ kind = "stream" /\ cancelled
  /\ r' = Ended("cancelled")
  /\ UNCHANGED <<requestVars, managerVars, historyVars, others>>

PoolExhausted ==
  /\ At("next") /\ r.models = {}
  /\ r' = IF kind = "stream" /\ cancelled THEN Ended("cancelled") ELSE AtPick(r)
  /\ UNCHANGED <<requestVars, managerVars, historyVars, others>>

\* A response, or the first payload of a stream.
Responds ==
  /\ At("call")
  /\ IF claudeOAuthRequestCancellation
       THEN r' = Ended("cancelled") /\ UNCHANGED <<state, owed>>
       ELSE IF kind = "stream"
         THEN r' = [r EXCEPT !.at = "streaming"] /\ UNCHANGED <<state, owed>>
         ELSE /\ r' = Ended("ok")
              /\ MarkResult(r.auth, r.model, "none")
              /\ owed' = owed - 1
  /\ UNCHANGED <<requestVars, auths, authEpochs, visits, others>>

\* The failure e is reported; a fault of the request ends it, one of the whole
\* credential ends the pool.
Report(e, boot) ==
  /\ MarkResult(r.auth, r.model, e)
  /\ owed' = owed - 1
  /\ r' = IF e = "invalid"
            THEN IF cancelled THEN Ended("cancelled") ELSE Ended("error")
            ELSE [WithError(StatusOf(e), TRUE, boot) EXCEPT !.at = "next", !.model = 0,
                    !.models = IF e = "credentialQuota" THEN {} ELSE @ \ {r.model}]

\* boot: the failure came from reading the stream.  Of a cancelled request
\* nothing is reported, unless a refreshed stream failed while it was read.
CallFails(e, boot) ==
  /\ At("call") /\ (boot => kind = "stream")
  /\ IF cancelled /\ (claudeOAuthRequestCancellation \/ ~(boot /\ r.refreshed))
       THEN r' = Ended("cancelled") /\ UNCHANGED <<state, owed>>
       ELSE IF e = "unauthorized" /\ ~r.refreshed
         THEN r' = [r EXCEPT !.at = "refresh", !.boot = boot] /\ UNCHANGED <<state, owed>>
         ELSE Report(e, boot)
  /\ UNCHANGED <<requestVars, auths, authEpochs, visits, others>>

\* The stream is closed before its first payload.
EmptyStream ==
  /\ At("call") /\ kind = "stream"
  /\ IF claudeOAuthRequestCancellation
       THEN r' = Ended("cancelled") /\ UNCHANGED <<state, owed>>
       ELSE Report("denied", TRUE)
  /\ UNCHANGED <<requestVars, auths, authEpochs, visits, others>>

\* Seeded fault: it is not kept that the token was refreshed once.
RefreshedAgain ==
  /\ At("refresh") /\ r.auth \in auths
  /\ r' = [r EXCEPT !.at = "call"]
  /\ UNCHANGED <<requestVars, managerVars, historyVars, others>>

\* tryRefreshAfterUnauthorized: the same call once more with the new token, or
\* the 401 is reported.
Refreshed ==
  /\ At("refresh") /\ r.auth \in auths
  /\ r' = [r EXCEPT !.at = "call", !.refreshed = TRUE]
  /\ UNCHANGED <<requestVars, managerVars, historyVars, others>>

\* Seeded fault: the 401 is only reported where the refresh was not tried.
RefreshFailsSilently ==
  /\ At("refresh")
  /\ r' = IF claudeOAuthRequestCancellation THEN Ended("cancelled")
          ELSE [WithError("other", TRUE, r.boot) EXCEPT !.at = "next", !.model = 0, !.models = @ \ {r.model}]
  /\ UNCHANGED <<requestVars, managerVars, historyVars, others>>

RefreshFails ==
  /\ At("refresh")
  /\ IF claudeOAuthRequestCancellation
       THEN r' = Ended("cancelled") /\ UNCHANGED <<state, owed>>
       ELSE Report("unauthorized", r.boot)
  /\ UNCHANGED <<requestVars, auths, authEpochs, visits, others>>

(***************************************************************************)
(* The stream (wrapStreamResult) and the handler that reads it             *)
(***************************************************************************)
\* A payload the interceptors and the validator let through.
Deliver ==
  /\ At("streaming") /\ ~delivered
  /\ delivered' = TRUE
  /\ UNCHANGED <<kind, maxRetryCredentials, cancelled, retried, managerVars, r, historyVars, others>>

\* Seeded fault: the handler asks again though the client has a part.
StreamFailsUnseen(e) ==
  /\ At("streaming")
  /\ MarkResult(r.auth, r.model, e)
  /\ owed' = owed - 1
  /\ r' = IF cancelled THEN Ended("cancelled")
          ELSE [Round(0, {}, "none") EXCEPT !.at = "handler", !.err = StatusOf(e)]
  /\ UNCHANGED <<requestVars, auths, authEpochs, visits, others>>

StreamFails(e) ==
  /\ At("streaming")
  /\ MarkResult(r.auth, r.model, e)
  /\ owed' = owed - 1
  /\ r' = IF cancelled THEN Ended("cancelled")
          ELSE IF delivered THEN Ended("error")
          ELSE [Round(0, {}, "none") EXCEPT !.at = "handler", !.err = StatusOf(e)]
  /\ UNCHANGED <<requestVars, auths, authEpochs, visits, others>>

\* A stream the validator finds incomplete has ended well all the same.
StreamEnds ==
  /\ At("streaming")
  /\ \E answer \in {"ok", "error"} : r' = Ended(IF cancelled THEN "cancelled" ELSE answer)
  /\ IF claudeOAuthRequestCancellation
       THEN UNCHANGED <<state, owed>>
       ELSE MarkResult(r.auth, r.model, "none") /\ owed' = owed - 1
  /\ UNCHANGED <<requestVars, auths, authEpochs, visits, others>>

StreamAbandoned ==
  /\ At("streaming") /\ cancelled
  /\ r' = Ended("cancelled")
  /\ UNCHANGED <<requestVars, managerVars, historyVars, others>>

\* The handler's validator refuses a payload and reads no further; what is left
\* of the stream is discarded when the context ends.
StreamRefused ==
  /\ At("streaming")
  /\ r' = Ended(IF cancelled THEN "cancelled" ELSE "refused")
  /\ UNCHANGED <<requestVars, managerVars, historyVars, others>>

\* The handler received an error in place of a first payload.
bootstrapEligible(e) == e # "400"

BootstrapRetry ==
  /\ At("handler") /\ ~cancelled
  /\ retried < BootstrapRetries /\ bootstrapEligible(r.err)
  /\ retried' = retried + 1
  /\ r' = Round(0, {}, "none")
  /\ visits' = [c \in Auths |-> 0]
  /\ UNCHANGED <<kind, maxRetryCredentials, cancelled, delivered, managerVars, owed, others>>

\* Of the other statuses, a 404 is not eligible.
BootstrapFails ==
  /\ At("handler")
  /\ \/ cancelled
     \/ retried >= BootstrapRetries
     \/ ~bootstrapEligible(r.err)
     \/ r.err = "other"
  /\ r' = Ended(IF cancelled THEN "cancelled" ELSE "error")
  /\ UNCHANGED <<requestVars, managerVars, historyVars, others>>

(***************************************************************************)
(* The surroundings                                                        *)
(***************************************************************************)
Cancel ==
  /\ ~At("ended") /\ ~cancelled
  /\ cancelled' = TRUE
  /\ UNCHANGED <<kind, maxRetryCredentials, delivered, retried, managerVars, r, historyVars, others>>

OtherRequest(c, m, e) ==
  /\ ~At("ended") /\ others < MaxOthers /\ c \in Contended \cap auths /\ m \in Pool[c]
  /\ MarkResult(c, m, e)
  /\ others' = others + 1
  /\ UNCHANGED <<requestVars, auths, authEpochs, r, historyVars>>

Remove(c) ==
  /\ ~At("ended") /\ others < MaxOthers /\ c \in Contended \cap auths
  /\ auths' = auths \ {c}
  /\ others' = others + 1
  /\ UNCHANGED <<requestVars, authEpochs, state, r, historyVars>>

Register(c) ==
  /\ ~At("ended") /\ c \in Auths \ auths
  /\ auths' = auths \cup {c}
  /\ authEpochs' = [authEpochs EXCEPT ![c] = @ + 1]
  /\ state' = [state EXCEPT ![c] = Fresh]
  /\ UNCHANGED <<requestVars, r, historyVars, others>>

Less(n) == IF n = 0 THEN 0 ELSE n - 1
Timed == r.wait > 0 \/ \E c \in Auths : state[c].wide > 0 \/ \E m \in Models : state[c].cool[m] > 0

Tick ==
  /\ ~At("ended") /\ Timed
  /\ r' = [r EXCEPT !.wait = Less(@)]
  /\ state' = [c \in Auths |-> [state[c] EXCEPT !.wide = Less(@),
                  !.cool = [m \in Models |-> Less(@[m])],
                  !.why = IF state[c].cool[0] <= 1 THEN "none" ELSE @]]
  /\ UNCHANGED <<requestVars, auths, authEpochs, historyVars, others>>

RoundSteps ==
  \/ \E c \in Auths : pickNextMixed(c)
  \/ RoundEnds \/ shouldRetryAfterError \/ NextRound \/ WaitCancelled
PrepareSteps == NotPrepared \/ PrepareBegins \/ Prepared \/ \E e \in Failures : PrepareFails(e)
CallSteps ==
  \/ Intercepted \/ (\E m \in Models : CallUpstream(m))
  \/ StreamNotOpened \/ PoolExhausted \/ Responds
  \/ \E e \in Failures, boot \in BOOLEAN : CallFails(e, boot)
  \/ EmptyStream \/ Refreshed \/ RefreshFails
StreamSteps ==
  \/ Deliver \/ (\E e \in Failures : StreamFails(e)) \/ StreamEnds
  \/ StreamAbandoned \/ StreamRefused \/ BootstrapRetry \/ BootstrapFails
RequestSteps == RoundSteps \/ PrepareSteps \/ CallSteps \/ StreamSteps
Surroundings ==
  \/ Cancel
  \/ \E c \in Auths, m \in Models, e \in {"none", "quota"} : OtherRequest(c, m, e)
  \/ \E c \in Auths : Remove(c) \/ Register(c)

Next == RequestSteps \/ Surroundings \/ Tick

Spec == Init /\ [][Next]_vars
FairSpec == Spec /\ WF_vars(RequestSteps) /\ WF_vars(Tick)

(***************************************************************************)
(* Properties                                                              *)
(***************************************************************************)
Places == {"pick", "closest", "wait", "prepare", "preparing", "first", "next", "call",
           "refresh", "streaming", "handler", "ended"}
Answers == {"none", "ok", "error", "cancelled", "refused", "panic"}

Request == [at : Places, attempt : Nat, excluded : SUBSET Auths, picked : SUBSET Auths,
            attempted : SUBSET Auths, auth : Auths \cup {NoOne}, epoch : Nat,
            models : SUBSET Models, model : Models, refreshed : BOOLEAN, err : Statuses,
            upstream : BOOLEAN, boot : BOOLEAN, past : Statuses, wait : Nat, answer : Answers]

\* The type of the state.
TypeOK ==
  /\ kind \in {"call", "stream"} /\ maxRetryCredentials \in CredentialCaps
  /\ auths \subseteq Auths /\ authEpochs \in [Auths -> Nat]
  /\ state \in [Auths -> Credential]
  /\ r \in Request
  /\ {cancelled, delivered} \subseteq BOOLEAN /\ retried \in Nat
  /\ visits \in [Auths -> Nat] /\ owed \in Int /\ others \in Nat

\* A request whose client has seen a payload of the stream never selects, calls
\* or waits again, whatever fails after it: neither the rounds of the manager nor
\* the handler's retries of a stream can send the client a second answer.
NothingAfterDelivery == delivered => r.at \in {"streaming", "ended"}

\* Every upstream call is reported to the manager exactly once before the loop
\* turns to another model, credential or round, or ends: a repeated call after a
\* refresh counts as the same one, and only a request that was cancelled, or
\* whose stream the handler refuses, leaves its last call unreported.  Holds for
\* calls, for streams that fail before, at and after their first payload, and for
\* streams read to their end.
OutcomesReported ==
  IF r.at \in {"call", "refresh", "streaming"} THEN owed = 1
  ELSE owed = 0 \/ (owed = 1 /\ r.answer \in {"cancelled", "refused"})

\* A credential is used at most once in a round, and over all rounds of an
\* execution no more often than its own request-retry allows, however many more
\* rounds others have; a round uses no more credentials than
\* max-retry-credentials.  (A credential registered in the middle of a round is
\* not among its exclusions.)
AttemptsBounded ==
  /\ \A c \in Auths : authEpochs[c] = 1 => visits[c] <= RequestRetry[c] + 1
  /\ maxRetryCredentials > 0 => Cardinality(r.attempted) <= maxRetryCredentials

\* A request ends: the rounds, the waits, the second calls and the handler's
\* retries are finite, whatever other requests and the configuration do.
RequestEnds == <>(r.at = "ended")

\* What a preparation returned is saved and the request goes on with it.
PreparedAuthUsed == r.answer # "panic"
=============================================================================
