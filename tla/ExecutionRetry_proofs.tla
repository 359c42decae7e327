------------------------ MODULE ExecutionRetry_proofs ------------------------
(***************************************************************************)
(* Proofs about ExecutionRetry, for any credentials, pools, limits and     *)
(* waits: types, that nothing follows a delivered payload, that every      *)
(* upstream call is reported once, and that a credential is used no more   *)
(* often than its own request-retry allows.                                *)
(***************************************************************************)
EXTENDS ExecutionRetry, FiniteSetTheorems, TLAPS

-----------------------------------------------------------------------------
\* The operators keep the types.

LEMMA StatusType == \A f \in Failures \cup {"none"} : StatusOf(f) \in Statuses
BY DEF StatusOf, Statuses, Failures, Cooling

LEMMA ModelFacts ==
  /\ 0 \in Models
  /\ \A c \in Auths : Pool[c] \subseteq Models
BY DEF Models

LEMMA FreshType == Fresh \in Credential
BY DEF Fresh, Credential, Models, Statuses

LEMMA SuccessType ==
  ASSUME NEW s \in Credential, NEW m \in Models
  PROVE  Success(s, m) \in Credential
BY DEF Success, Cause, Credential, Statuses

LEMMA CooledType ==
  ASSUME NEW s \in Credential, NEW m \in Models, NEW e \in Cooling
  PROVE  Cooled(s, m, e) \in Credential
<1>1. StatusOf(e) \in Statuses /\ CoolFor[e] \in Nat
  BY StatusType, RetryAssumption DEF Failures
<1> DEFINE t == [s EXCEPT !.cool[m] = Larger(@, CoolFor[e]),
                          !.why = Cause(s, m, StatusOf(e)), !.known = @ \cup {m}]
           blocks == e = "unauthorized" /\ (t.wide > 0 \/ \A n \in t.known : t.cool[n] > 0)
<1>2. t \in Credential
  BY <1>1 DEF Larger, Cause, Credential
<1>3. Cooled(s, m, e) = [t EXCEPT !.bad = blocks] /\ blocks \in BOOLEAN
  BY DEF Cooled
<1> HIDE DEF t, blocks
<1> QED BY <1>2, <1>3 DEF Credential

LEMMA FailureType ==
  ASSUME NEW c \in Auths, NEW s \in Credential, NEW m \in Models, NEW e \in Failures
  PROVE  Failure(c, s, m, e) \in Credential
<1>1. CASE e \notin Cooling
  BY <1>1 DEF Failure
<1>2. CASE e \in Cooling
  <2>1. CoolFor[e] \in Nat /\ Cooled(s, m, e) \in Credential
    BY <1>2, CooledType, RetryAssumption
  <2>2. [s EXCEPT !.bad = FALSE, !.known = @ \cup {m}] \in Credential
    BY DEF Credential
  <2>3. [s EXCEPT !.bad = FALSE, !.wide = Larger(@, CoolFor[e]), !.known = @ \cup {m}] \in Credential
    BY <2>1 DEF Credential, Larger
  <2> QED BY <1>2, <2>1, <2>2, <2>3 DEF Failure
<1> QED BY <1>1, <1>2

LEMMA MarkType ==
  ASSUME state \in [Auths -> Credential], auths \subseteq Auths,
         NEW c, NEW m \in Models, NEW e \in Failures \cup {"none"}, MarkResult(c, m, e)
  PROVE  state' \in [Auths -> Credential]
<1>1. CASE c \in auths
  <2>1. state[c] \in Credential
    BY <1>1
  <2>2. CASE e = "none"
    BY <1>1, <2>1, <2>2, SuccessType DEF MarkResult
  <2>3. CASE e # "none"
    <3>1. Failure(c, state[c], m, e) \in Credential
      BY <1>1, <2>1, <2>3, FailureType
    <3> QED BY <1>1, <2>3, <3>1 DEF MarkResult
  <2> QED BY <2>2, <2>3
<1>2. CASE c \notin auths
  BY <1>2 DEF MarkResult
<1> QED BY <1>1, <1>2

LEMMA RoundType ==
  ASSUME NEW attempt \in Nat, NEW excluded \in SUBSET Auths, NEW past \in Statuses
  PROVE  Round(attempt, excluded, past) \in Request
BY ModelFacts DEF Round, Request, Places, Statuses, Answers

LEMMA EndedType ==
  ASSUME NEW answer \in Answers
  PROVE  Ended(answer) \in Request
<1>1. Round(0, {}, "none") \in Request
  BY RoundType DEF Statuses
<1> QED BY <1>1 DEF Ended, Request, Places

\* The request as the handler finds it, with the error of the stream.
LEMMA HandlerType ==
  ASSUME NEW e \in Statuses
  PROVE  [Round(0, {}, "none") EXCEPT !.at = "handler", !.err = e] \in Request
<1>1. Round(0, {}, "none") \in Request
  BY RoundType DEF Statuses
<1> QED BY <1>1 DEF Request, Places

LEMMA WithErrorType ==
  ASSUME r \in Request, NEW e \in Statuses, NEW upstream \in BOOLEAN, NEW boot \in BOOLEAN
  PROVE  WithError(e, upstream, boot) \in Request
BY DEF WithError, Request

LEMMA AtPickType ==
  ASSUME NEW s \in Request
  PROVE  AtPick(s) \in Request
BY DEF AtPick, Request, Places

LEMMA GiveUpType ==
  ASSUME r \in Request
  PROVE  GiveUp \in Request
<1>1. Preferred \in Statuses
  BY DEF Preferred, Request, Statuses
<1> QED BY <1>1, EndedType, HandlerType DEF GiveUp, Answers

LEMMA WaitType ==
  ASSUME state \in [Auths -> Credential], NEW c \in Auths, NEW e
  PROVE  closestCooldownWait(c, e) \in Nat
<1>1. BlockedFor(c) \in Nat
  BY ModelFacts DEF BlockedFor, Larger, Credential
<1> QED BY <1>1, RetryAssumption DEF closestCooldownWait, Larger

-----------------------------------------------------------------------------
\* Every step keeps the types.

LEMMA TypeInit == Init => TypeOK
<1> SUFFICES ASSUME Init PROVE TypeOK
  OBVIOUS
<1>1. r \in Request
  BY RoundType DEF Init, Statuses
<1>2. state \in [Auths -> Credential]
  BY FreshType DEF Init
<1>3. /\ authEpochs \in [Auths -> Nat] /\ visits \in [Auths -> Nat]
      /\ retried \in Nat /\ owed \in Int /\ others \in Nat
  BY DEF Init
<1> QED BY <1>1, <1>2, <1>3 DEF Init, TypeOK

LEMMA RoundTypes == TypeOK /\ RoundSteps => TypeOK'
<1> SUFFICES ASSUME TypeOK, RoundSteps PROVE TypeOK'
  OBVIOUS
<1> USE DEF TypeOK, requestVars, managerVars, historyVars
<1>1. ASSUME NEW c \in Auths, pickNextMixed(c)
      PROVE  TypeOK'
  <2>1. filterExecutionModels(c) \in SUBSET Models
    BY ModelFacts DEF filterExecutionModels
  <2>2. authEpochs[c] \in Nat /\ Smaller(visits[c] + 1, RequestRetry[c] + 2) \in Nat
    BY RetryAssumption DEF Smaller
  <2>3. r' \in Request
    <3> DEFINE picked == [r EXCEPT !.picked = @ \cup {c}]
    <3>1. picked \in Request
      BY DEF Request
    <3>2. [picked EXCEPT !.at = "prepare", !.attempted = @ \cup {c}, !.auth = c,
             !.epoch = authEpochs[c], !.models = filterExecutionModels(c),
             !.refreshed = FALSE] \in Request
      <4> HIDE DEF picked
      <4> QED BY <2>1, <2>2, <3>1 DEF Request, Places
    <3> QED BY <1>1, <3>1, <3>2 DEF pickNextMixed
  <2>4. visits' \in [Auths -> Nat]
    BY <1>1, <2>2 DEF pickNextMixed
  <2> QED BY <1>1, <2>3, <2>4 DEF pickNextMixed
<1>2. CASE RoundEnds
  <2> DEFINE e == IF r.err # "none" THEN r.err ELSE IF CapReached THEN "other" ELSE PickError
  <2>1. e \in Statuses
    <3>1. PickError \in Statuses
      BY DEF PickError, Statuses
    <3> QED BY <3>1 DEF Request, Statuses
  <2>2. Preferred \in Statuses
    BY DEF Preferred, Request, Statuses
  <2>3. [r EXCEPT !.at = "closest", !.err = e, !.past = Preferred] \in Request
    <3> HIDE DEF e
    <3> QED BY <2>1, <2>2 DEF Request, Places
  <2>4. r' \in Request
    BY <1>2, <2>3, GiveUpType, EndedType DEF RoundEnds, Answers
  <2> QED BY <1>2, <2>4 DEF RoundEnds
<1>3. CASE shouldRetryAfterError
  <2>1. \A f \in Cooling : CoolFor[f] \in Nat
    BY RetryAssumption
  <2>2. \A c \in Nearest : closestCooldownWait(c, r.err) \in Nat
    BY WaitType DEF Nearest, RetryCandidates
  <2>3. PICK wait \in Nat :
          r' = IF wait > MaxRetryInterval THEN GiveUp
               ELSE [r EXCEPT !.at = "wait", !.err = "none", !.wait = wait]
    BY <1>3, <2>1, <2>2 DEF shouldRetryAfterError
  <2>4. [r EXCEPT !.at = "wait", !.err = "none", !.wait = wait] \in Request
    BY DEF Request, Places, Statuses
  <2>5. r' \in Request
    BY <2>3, <2>4, GiveUpType
  <2> QED BY <1>3, <2>5 DEF shouldRetryAfterError
<1>4. CASE NextRound
  <2>1. r.attempt + 1 \in Nat /\ r.past \in Statuses
    BY DEF Request
  <2>2. requestRetryRoundExclusions(r.attempt + 1) \in SUBSET Auths
    BY DEF requestRetryRoundExclusions
  <2>3. r' \in Request
    BY <1>4, <2>1, <2>2, RoundType DEF NextRound
  <2> QED BY <1>4, <2>3 DEF NextRound
<1>5. CASE WaitCancelled
  BY <1>5, EndedType DEF WaitCancelled, Answers
<1> QED BY <1>1, <1>2, <1>3, <1>4, <1>5 DEF RoundSteps

LEMMA PrepareTypes == TypeOK /\ PrepareSteps => TypeOK'
<1> SUFFICES ASSUME TypeOK, PrepareSteps PROVE TypeOK'
  OBVIOUS
<1> USE DEF TypeOK, requestVars, managerVars, historyVars
<1>1. CASE NotPrepared
  BY <1>1 DEF NotPrepared, Request, Places
<1>2. CASE PrepareBegins
  <2>1. r' \in Request
    BY <1>2 DEF PrepareBegins, Request, Places
  <2> QED BY <1>2, <2>1 DEF PrepareBegins
<1>3. CASE Prepared
  <2>1. [r EXCEPT !.at = "first"] \in Request
    BY DEF Request, Places
  <2> QED BY <1>3, <2>1, EndedType DEF Prepared, Answers
<1>4. ASSUME NEW e \in Failures, PrepareFails(e)
      PROVE  TypeOK'
  <2>1. WithError(StatusOf(e), FALSE, FALSE) \in Request
    BY StatusType, WithErrorType
  <2>2. r' \in Request
    BY <1>4, <2>1, AtPickType, EndedType DEF PrepareFails, Answers
  <2>3. state' \in [Auths -> Credential]
    BY <1>4, MarkType, ModelFacts DEF PrepareFails
  <2> QED BY <1>4, <2>2, <2>3 DEF PrepareFails
<1> QED BY <1>1, <1>2, <1>3, <1>4 DEF PrepareSteps

\* A report of the failure of a call.
LEMMA ReportTypes ==
  ASSUME TypeOK, NEW e \in Failures, NEW boot \in BOOLEAN, Report(e, boot)
  PROVE  r' \in Request /\ state' \in [Auths -> Credential] /\ owed' \in Int
<1>1. r.model \in Models /\ state \in [Auths -> Credential] /\ auths \subseteq Auths
  BY DEF TypeOK, Request
<1>2. state' \in [Auths -> Credential]
  BY <1>1, MarkType DEF Report
<1>3. WithError(StatusOf(e), TRUE, boot) \in Request
  BY StatusType, WithErrorType DEF TypeOK
<1>4. [WithError(StatusOf(e), TRUE, boot) EXCEPT !.at = "next", !.model = 0,
        !.models = IF e = "credentialQuota" THEN {} ELSE @ \ {r.model}] \in Request
  BY <1>3, ModelFacts DEF Request, Places
<1>5. r' \in Request
  BY <1>4, EndedType DEF Report, Answers
<1> QED BY <1>2, <1>5 DEF Report, TypeOK

LEMMA CallTypes == TypeOK /\ CallSteps => TypeOK'
<1> SUFFICES ASSUME TypeOK, CallSteps PROVE TypeOK'
  OBVIOUS
<1> USE DEF TypeOK, requestVars, managerVars, historyVars
<1>1. ASSUME NEW m \in Models, CallUpstream(m)
      PROVE  TypeOK'
  <2>1. r' \in Request
    BY <1>1 DEF CallUpstream, Request, Places
  <2> QED BY <1>1, <2>1 DEF CallUpstream
<1>2. CASE StreamNotOpened \/ Intercepted \/ PoolExhausted
  <2>1. AtPick(r) \in Request /\ AtPick(WithError("refused", FALSE, FALSE)) \in Request
    BY AtPickType, WithErrorType DEF Statuses
  <2>2. r' \in Request
    BY <1>2, <2>1, EndedType DEF StreamNotOpened, Intercepted, PoolExhausted, Answers
  <2> QED BY <1>2, <2>2 DEF StreamNotOpened, Intercepted, PoolExhausted
<1>3. CASE Responds
  <2>1. [r EXCEPT !.at = "streaming"] \in Request /\ r.model \in Models
    BY DEF Request, Places
  <2>2. r' \in Request
    BY <1>3, <2>1, EndedType DEF Responds, Answers
  <2>3. MarkResult(r.auth, r.model, "none") => state' \in [Auths -> Credential]
    BY <2>1, MarkType
  <2>4. state' \in [Auths -> Credential] /\ owed' \in Int
    BY <1>3, <2>3 DEF Responds
  <2> QED BY <1>3, <2>2, <2>4 DEF Responds
<1>4. ASSUME NEW e \in Failures, NEW boot \in BOOLEAN, CallFails(e, boot)
      PROVE  TypeOK'
  <2>1. [r EXCEPT !.at = "refresh", !.boot = boot] \in Request
    BY DEF Request, Places
  <2>2. r' \in Request /\ state' \in [Auths -> Credential] /\ owed' \in Int
    BY <1>4, <2>1, ReportTypes, EndedType DEF CallFails, Answers
  <2> QED BY <1>4, <2>2 DEF CallFails
<1>5. CASE Refreshed
  <2>1. r' \in Request
    BY <1>5 DEF Refreshed, Request, Places
  <2> QED BY <1>5, <2>1 DEF Refreshed
<1>6. CASE RefreshFails
  <2>1. r.boot \in BOOLEAN /\ "unauthorized" \in Failures
    BY DEF Request, Failures, Cooling
  <2>2. r' \in Request /\ state' \in [Auths -> Credential] /\ owed' \in Int
    BY <1>6, <2>1, ReportTypes, EndedType DEF RefreshFails, Answers
  <2> QED BY <1>6, <2>2 DEF RefreshFails
<1>7. CASE EmptyStream
  <2>1. "denied" \in Failures
    BY DEF Failures, Cooling
  <2>2. r' \in Request /\ state' \in [Auths -> Credential] /\ owed' \in Int
    BY <1>7, <2>1, ReportTypes, EndedType DEF EmptyStream, Answers
  <2> QED BY <1>7, <2>2 DEF EmptyStream
<1> QED BY <1>1, <1>2, <1>3, <1>4, <1>5, <1>6, <1>7 DEF CallSteps

LEMMA StreamTypes == TypeOK /\ StreamSteps => TypeOK'
<1> SUFFICES ASSUME TypeOK, StreamSteps PROVE TypeOK'
  OBVIOUS
<1> USE DEF TypeOK, requestVars, managerVars, historyVars
<1>1. CASE Deliver \/ StreamAbandoned \/ StreamRefused
  BY <1>1, EndedType DEF Deliver, StreamAbandoned, StreamRefused, Answers
<1>2. ASSUME NEW e \in Failures, StreamFails(e)
      PROVE  TypeOK'
  <2>1. r.model \in Models /\ StatusOf(e) \in Statuses
    BY StatusType DEF Request
  <2>2. r' \in Request
    BY <1>2, <2>1, HandlerType, EndedType DEF StreamFails, Answers
  <2>3. state' \in [Auths -> Credential]
    BY <1>2, <2>1, MarkType DEF StreamFails
  <2> QED BY <1>2, <2>2, <2>3 DEF StreamFails
<1>3. CASE StreamEnds
  <2>1. r.model \in Models
    BY DEF Request
  <2>2. r' \in Request
    BY <1>3, EndedType DEF StreamEnds, Answers
  <2>3. state' \in [Auths -> Credential] /\ owed' \in Int
    BY <1>3, <2>1, MarkType DEF StreamEnds
  <2> QED BY <1>3, <2>2, <2>3 DEF StreamEnds
<1>4. CASE BootstrapRetry
  <2>1. r' \in Request
    BY <1>4, RoundType DEF BootstrapRetry, Statuses
  <2> QED BY <1>4, <2>1 DEF BootstrapRetry
<1>5. CASE BootstrapFails
  <2>1. r' \in Request
    BY <1>5, EndedType DEF BootstrapFails, Answers
  <2> QED BY <1>5, <2>1 DEF BootstrapFails
<1> QED BY <1>1, <1>2, <1>3, <1>4, <1>5 DEF StreamSteps

LEMMA SurroundingTypes == TypeOK /\ (Surroundings \/ Tick) => TypeOK'
<1> SUFFICES ASSUME TypeOK, Surroundings \/ Tick PROVE TypeOK'
  OBVIOUS
<1> USE DEF TypeOK, requestVars, managerVars, historyVars
<1>1. CASE Cancel
  BY <1>1 DEF Cancel
<1>2. ASSUME NEW c \in Auths, NEW m \in Models, NEW e \in {"none", "quota"}, OtherRequest(c, m, e)
      PROVE  TypeOK'
  <2>1. e \in Failures \cup {"none"}
    BY DEF Failures, Cooling
  <2>2. state' \in [Auths -> Credential]
    BY <1>2, <2>1, MarkType DEF OtherRequest
  <2> QED BY <1>2, <2>2 DEF OtherRequest
<1>3. ASSUME NEW c \in Auths, Remove(c) \/ Register(c)
      PROVE  TypeOK'
  BY <1>3, FreshType DEF Remove, Register
<1>4. CASE Tick
  <2>1. r' \in Request
    <3>1. r.wait \in Nat /\ Less(r.wait) \in Nat
      BY DEF Request, Less
    <3>2. r' = [r EXCEPT !.wait = Less(r.wait)]
      BY <1>4 DEF Tick
    <3> QED BY <3>1, <3>2 DEF Request
  <2>2. ASSUME NEW c \in Auths
        PROVE  [state[c] EXCEPT !.wide = Less(@), !.cool = [m \in Models |-> Less(@[m])],
                  !.why = IF state[c].cool[0] <= 1 THEN "none" ELSE @] \in Credential
    <3>1. state[c] \in Credential
      OBVIOUS
    <3>2. /\ Less(state[c].wide) \in Nat
          /\ [m \in Models |-> Less(state[c].cool[m])] \in [Models -> Nat]
      BY <3>1 DEF Credential, Less
    <3> QED BY <3>1, <3>2 DEF Credential, Statuses
  <2>3. state' \in [Auths -> Credential]
    BY <1>4, <2>2 DEF Tick
  <2> QED BY <1>4, <2>1, <2>3 DEF Tick
<1> QED BY <1>1, <1>2, <1>3, <1>4 DEF Surroundings

LEMMA TypeStep == TypeOK /\ [Next]_vars => TypeOK'
<1>1. TypeOK /\ UNCHANGED vars => TypeOK'
  BY DEF TypeOK, vars, managerVars, historyVars
<1> QED
  BY <1>1, RoundTypes, PrepareTypes, CallTypes, StreamTypes, SurroundingTypes
  DEF Next, RequestSteps

\* The type of the state, whatever the limits, pools and waits.
THEOREM RetryTypes == Spec => []TypeOK
<1> QED BY TypeInit, TypeStep, PTL DEF Spec

-----------------------------------------------------------------------------
\* Nothing is answered before the end: with it, OutcomesReported says that no
\* call is owed wherever the request selects, prepares or waits.
AnsweredAtEnd == At("ended") \/ r.answer = "none"

ReportInv == NothingAfterDelivery /\ AnsweredAtEnd /\ OutcomesReported

LEMMA ReportInit == Init => ReportInv
BY DEF Init, ReportInv, NothingAfterDelivery, AnsweredAtEnd, OutcomesReported, Round, At

\* What each of the operators makes of the request.
LEMMA PlaceFacts ==
  ASSUME TypeOK
  PROVE  /\ \A a : Ended(a).at = "ended" /\ Ended(a).answer = a
         /\ \A e \in Statuses, u, b \in BOOLEAN :
              WithError(e, u, b).at = r.at /\ WithError(e, u, b).answer = r.answer
         /\ \A s \in Request : AtPick(s).at = "pick" /\ AtPick(s).answer = s.answer
         /\ \A n, x, past : Round(n, x, past).at = "pick" /\ Round(n, x, past).answer = "none"
         /\ GiveUp.at = "handler" => GiveUp.answer = "none"
         /\ GiveUp.at \in {"handler", "ended"}
<1>1. r \in Request
  BY DEF TypeOK
<1>2. /\ \A a : Ended(a).at = "ended" /\ Ended(a).answer = a
      /\ \A n, x, past : Round(n, x, past).at = "pick" /\ Round(n, x, past).answer = "none"
  BY DEF Ended, Round
<1>3. \A e \in Statuses, u, b \in BOOLEAN :
         WithError(e, u, b).at = r.at /\ WithError(e, u, b).answer = r.answer
  BY <1>1 DEF WithError, Request
<1>4. \A s \in Request : AtPick(s).at = "pick" /\ AtPick(s).answer = s.answer
  BY DEF AtPick, Request
<1>5. /\ GiveUp.at = "handler" => GiveUp.answer = "none"
      /\ GiveUp.at \in {"handler", "ended"}
  BY DEF GiveUp, Ended, Round
<1> QED BY <1>2, <1>3, <1>4, <1>5

LEMMA ReportRounds == TypeOK /\ ReportInv /\ RoundSteps => ReportInv'
<1> SUFFICES ASSUME TypeOK, ReportInv, RoundSteps PROVE ReportInv'
  OBVIOUS
<1> USE PlaceFacts
    DEF ReportInv, NothingAfterDelivery, AnsweredAtEnd, OutcomesReported, At, requestVars, managerVars, historyVars
<1>0. r \in Request
  BY DEF TypeOK
<1>1. ASSUME NEW c \in Auths, pickNextMixed(c)
      PROVE  ReportInv'
  <2>1. r'.at \in {"pick", "prepare"} /\ r'.answer = r.answer
    BY <1>0, <1>1, ZenonT(30) DEF pickNextMixed, Request
  <2> QED BY <1>1, <2>1 DEF pickNextMixed
<1>2. CASE RoundEnds
  <2>1. \/ r'.at = "closest" /\ r'.answer = r.answer
        \/ r' = GiveUp
        \/ r' = Ended("error")
    BY <1>0, <1>2 DEF RoundEnds, Request
  <2> QED BY <1>2, <2>1 DEF RoundEnds
<1>3. CASE shouldRetryAfterError
  <2>1. \/ r'.at = "wait" /\ r'.answer = r.answer
        \/ r' = GiveUp
    BY <1>0, <1>3 DEF shouldRetryAfterError, Request
  <2> QED BY <1>3, <2>1 DEF shouldRetryAfterError
<1>4. CASE NextRound \/ WaitCancelled
  BY <1>4 DEF NextRound, WaitCancelled
<1> QED BY <1>1, <1>2, <1>3, <1>4 DEF RoundSteps

LEMMA ReportPrepare == TypeOK /\ ReportInv /\ PrepareSteps => ReportInv'
<1> SUFFICES ASSUME TypeOK, ReportInv, PrepareSteps PROVE ReportInv'
  OBVIOUS
<1> USE PlaceFacts
    DEF ReportInv, NothingAfterDelivery, AnsweredAtEnd, OutcomesReported, At, requestVars, managerVars, historyVars
<1>0. r \in Request
  BY DEF TypeOK
<1>1. CASE NotPrepared \/ PrepareBegins \/ Prepared
  <2>1. \/ r'.at \in {"preparing", "first"} /\ r'.answer = r.answer
        \/ r' = Ended("panic")
    BY <1>0, <1>1 DEF NotPrepared, PrepareBegins, Prepared, Request
  <2> QED BY <1>1, <2>1 DEF NotPrepared, PrepareBegins, Prepared
<1>2. ASSUME NEW e \in Failures, PrepareFails(e)
      PROVE  ReportInv'
  <2>1. WithError(StatusOf(e), FALSE, FALSE) \in Request /\ StatusOf(e) \in Statuses
    BY <1>0, StatusType, WithErrorType
  <2>2. \/ r'.at = "pick" /\ r'.answer = r.answer
        \/ r' = Ended("cancelled")
    <3>1. /\ WithError(StatusOf(e), FALSE, FALSE).answer = r.answer
          /\ AtPick(WithError(StatusOf(e), FALSE, FALSE)).at = "pick"
          /\ AtPick(WithError(StatusOf(e), FALSE, FALSE)).answer = r.answer
      BY <2>1
    <3> QED BY <1>2, <3>1 DEF PrepareFails
  <2> QED BY <1>2, <2>2 DEF PrepareFails
<1> QED BY <1>1, <1>2 DEF PrepareSteps

\* A report settles the call.
LEMMA ReportSettles ==
  ASSUME TypeOK, NEW e \in Failures, NEW boot \in BOOLEAN, Report(e, boot)
  PROVE  /\ owed' = owed - 1
         /\ (r'.at = "next" /\ r'.answer = r.answer) \/ r'.at = "ended"
<1>1. WithError(StatusOf(e), TRUE, boot) \in Request /\ StatusOf(e) \in Statuses
  BY StatusType, WithErrorType DEF TypeOK
<1>2. WithError(StatusOf(e), TRUE, boot).answer = r.answer
  BY <1>1, PlaceFacts
<1> QED BY <1>1, <1>2, PlaceFacts DEF Report, Request

LEMMA ReportCalls == TypeOK /\ ReportInv /\ CallSteps => ReportInv'
<1> SUFFICES ASSUME TypeOK, ReportInv, CallSteps PROVE ReportInv'
  OBVIOUS
<1> USE PlaceFacts
    DEF ReportInv, NothingAfterDelivery, AnsweredAtEnd, OutcomesReported, At, requestVars, managerVars, historyVars
<1>0. r \in Request /\ owed \in Int
  BY DEF TypeOK
<1>1. ASSUME NEW m \in Models, CallUpstream(m)
      PROVE  ReportInv'
  <2>1. r'.at = "call" /\ r'.answer = r.answer
    BY <1>0, <1>1 DEF CallUpstream, Request
  <2> QED BY <1>0, <1>1, <2>1 DEF CallUpstream
<1>2. CASE StreamNotOpened \/ Intercepted \/ PoolExhausted
  <2>1. (r'.at = "pick" /\ r'.answer = r.answer) \/ r'.at = "ended"
    <3>1. /\ AtPick(r).at = "pick" /\ AtPick(r).answer = r.answer
          /\ AtPick(WithError("refused", FALSE, FALSE)).at = "pick"
          /\ AtPick(WithError("refused", FALSE, FALSE)).answer = r.answer
      BY <1>0, WithErrorType DEF Statuses
    <3>2. \/ r' = AtPick(r) \/ r' = AtPick(WithError("refused", FALSE, FALSE))
          \/ r' = Ended("cancelled") \/ r' = Ended("error")
      BY <1>2 DEF StreamNotOpened, Intercepted, PoolExhausted
    <3>3. Ended("cancelled").at = "ended" /\ Ended("error").at = "ended"
      OBVIOUS
    <3> QED BY <3>1, <3>2, <3>3
  <2>2. owed = 0 /\ r.answer = "none" /\ ~delivered
    BY <1>0, <1>2 DEF StreamNotOpened, Intercepted, PoolExhausted
  <2>3. owed' = owed /\ delivered' = delivered
    BY <1>2 DEF StreamNotOpened, Intercepted, PoolExhausted
  <2> QED BY <2>1, <2>2, <2>3
<1>3. CASE Responds
  <2>1. \/ r' = Ended("cancelled") /\ owed' = owed
        \/ r'.at = "streaming" /\ r'.answer = r.answer /\ owed' = owed
        \/ r' = Ended("ok") /\ owed' = owed - 1
    BY <1>0, <1>3 DEF Responds, Request
  <2> QED BY <1>0, <1>3, <2>1 DEF Responds
<1>4. ASSUME NEW e \in Failures, NEW boot \in BOOLEAN, CallFails(e, boot)
      PROVE  ReportInv'
  <2>1. \/ r' = Ended("cancelled") /\ owed' = owed
        \/ r'.at = "refresh" /\ r'.answer = r.answer /\ owed' = owed
        \/ owed' = owed - 1 /\ ((r'.at = "next" /\ r'.answer = r.answer) \/ r'.at = "ended")
    <3>1. /\ [r EXCEPT !.at = "refresh", !.boot = boot].at = "refresh"
          /\ [r EXCEPT !.at = "refresh", !.boot = boot].answer = r.answer
      BY <1>0 DEF Request
    <3>2. \/ r' = Ended("cancelled") /\ owed' = owed
          \/ r' = [r EXCEPT !.at = "refresh", !.boot = boot] /\ owed' = owed
          \/ Report(e, boot)
      BY <1>4 DEF CallFails
    <3> QED BY <3>1, <3>2, ReportSettles
  <2> QED BY <1>0, <1>4, <2>1 DEF CallFails
<1>5. CASE Refreshed
  <2>1. r'.at = "call" /\ r'.answer = r.answer
    BY <1>0, <1>5 DEF Refreshed, Request
  <2> QED BY <1>5, <2>1 DEF Refreshed
<1>6. CASE RefreshFails
  <2>1. r.boot \in BOOLEAN /\ "unauthorized" \in Failures
    BY <1>0 DEF Request, Failures, Cooling
  <2>2. \/ r' = Ended("cancelled") /\ owed' = owed
        \/ owed' = owed - 1 /\ ((r'.at = "next" /\ r'.answer = r.answer) \/ r'.at = "ended")
    BY <1>6, <2>1, ReportSettles DEF RefreshFails
  <2> QED BY <1>0, <1>6, <2>2 DEF RefreshFails
<1>7. CASE EmptyStream
  <2>1. "denied" \in Failures
    BY DEF Failures, Cooling
  <2>2. \/ r' = Ended("cancelled") /\ owed' = owed
        \/ owed' = owed - 1 /\ ((r'.at = "next" /\ r'.answer = r.answer) \/ r'.at = "ended")
    BY <1>7, <2>1, ReportSettles DEF EmptyStream
  <2> QED BY <1>0, <1>7, <2>2 DEF EmptyStream
<1> QED BY <1>1, <1>2, <1>3, <1>4, <1>5, <1>6, <1>7 DEF CallSteps

LEMMA ReportStreams == TypeOK /\ ReportInv /\ StreamSteps => ReportInv'
<1> SUFFICES ASSUME TypeOK, ReportInv, StreamSteps PROVE ReportInv'
  OBVIOUS
<1> USE PlaceFacts
    DEF ReportInv, NothingAfterDelivery, AnsweredAtEnd, OutcomesReported, At, requestVars, managerVars, historyVars
<1>0. r \in Request /\ owed \in Int
  BY DEF TypeOK
<1>1. CASE Deliver \/ StreamAbandoned \/ StreamRefused
  BY <1>1 DEF Deliver, StreamAbandoned, StreamRefused
<1>2. ASSUME NEW e \in Failures, StreamFails(e)
      PROVE  ReportInv'
  <2>1. r'.at = "ended" \/ (~delivered /\ r'.at = "handler" /\ r'.answer = "none")
    <3> DEFINE asked == [Round(0, {}, "none") EXCEPT !.at = "handler", !.err = StatusOf(e)]
    <3>1. asked.at = "handler" /\ asked.answer = "none"
      BY DEF Round
    <3>2. \/ r' = Ended("cancelled")
          \/ r' = Ended("error")
          \/ ~delivered /\ r' = asked
      BY <1>2 DEF StreamFails
    <3> HIDE DEF asked
    <3> QED BY <3>1, <3>2
  <2> QED BY <1>0, <1>2, <2>1 DEF StreamFails
<1>3. CASE StreamEnds
  <2>1. r'.at = "ended" /\ (owed' = owed - 1 \/ (cancelled /\ owed' = owed))
    <3>1. claudeOAuthRequestCancellation => cancelled
      BY DEF claudeOAuthRequestCancellation
    <3>2. r'.at = "ended"
      BY <1>3 DEF StreamEnds
    <3>3. (claudeOAuthRequestCancellation /\ owed' = owed) \/ owed' = owed - 1
      BY <1>3 DEF StreamEnds
    <3> QED BY <3>1, <3>2, <3>3
  <2>2. cancelled => r'.answer = "cancelled"
    BY <1>3 DEF StreamEnds
  <2> QED BY <1>0, <1>3, <2>1, <2>2 DEF StreamEnds
<1>4. CASE BootstrapRetry \/ BootstrapFails
  BY <1>4 DEF BootstrapRetry, BootstrapFails
<1> QED BY <1>1, <1>2, <1>3, <1>4 DEF StreamSteps

LEMMA ReportSurroundings == TypeOK /\ ReportInv /\ (Surroundings \/ Tick) => ReportInv'
<1> SUFFICES ASSUME TypeOK, ReportInv, Surroundings \/ Tick PROVE ReportInv'
  OBVIOUS
<1> USE DEF ReportInv, NothingAfterDelivery, AnsweredAtEnd, OutcomesReported, At, requestVars, managerVars, historyVars
<1>1. CASE Surroundings
  BY <1>1 DEF Surroundings, Cancel, OtherRequest, Remove, Register
<1>2. CASE Tick
  <2>1. r'.at = r.at /\ r'.answer = r.answer
    BY <1>2 DEF Tick, TypeOK, Request
  <2> QED BY <1>2, <2>1 DEF Tick
<1> QED BY <1>1, <1>2

LEMMA ReportStep == TypeOK /\ ReportInv /\ [Next]_vars => ReportInv'
<1>1. ReportInv /\ UNCHANGED vars => ReportInv'
  BY DEF ReportInv, NothingAfterDelivery, AnsweredAtEnd, OutcomesReported, At, vars, managerVars, historyVars
<1> QED
  BY <1>1, ReportRounds, ReportPrepare, ReportCalls, ReportStreams, ReportSurroundings
  DEF Next, RequestSteps

\* Nothing is selected, called or waited for once the client has a payload,
\* whatever fails after it.
THEOREM NoSecondAnswer == Spec => []NothingAfterDelivery
<1>1. Spec => []ReportInv
  BY ReportInit, ReportStep, RetryTypes, PTL DEF Spec
<1>2. ReportInv => NothingAfterDelivery
  BY DEF ReportInv
<1> QED BY <1>1, <1>2, PTL

\* Every upstream call is reported to the manager exactly once, the last one of
\* a cancelled request excepted.
THEOREM EveryCallReported == Spec => []OutcomesReported
<1>1. Spec => []ReportInv
  BY ReportInit, ReportStep, RetryTypes, PTL DEF Spec
<1>2. ReportInv => OutcomesReported
  BY DEF ReportInv
<1> QED BY <1>1, <1>2, PTL

-----------------------------------------------------------------------------
\* Where the rounds are not over: the round's number bounds the rounds that used
\* a credential, and the limit of one that may still be selected bounds the
\* number.
Running == ~At("ended") /\ ~At("handler")

RoundsCounted ==
  \A c \in Auths : authEpochs[c] = 1 =>
    /\ visits[c] <= r.attempt + 1
    /\ c \notin r.picked => visits[c] <= r.attempt
    /\ c \in auths \ r.excluded => r.attempt <= RequestRetry[c]

RoundsInv ==
  /\ AttemptsBounded
  /\ \A c \in Auths : authEpochs[c] >= 1
  /\ IsFiniteSet(r.attempted)
  /\ Running => RoundsCounted

LEMMA RoundsInit == Init => RoundsInv
<1> SUFFICES ASSUME Init PROVE RoundsInv
  OBVIOUS
<1>1. r.attempted = {} /\ r.attempt = 0 /\ \A c \in Auths : visits[c] = 0 /\ authEpochs[c] = 1
  BY DEF Init, Round
<1>2. IsFiniteSet(r.attempted) /\ Cardinality(r.attempted) = 0
  BY <1>1, FS_EmptySet
<1>3. maxRetryCredentials \in Nat /\ \A c \in Auths : RequestRetry[c] \in Nat
  BY RetryAssumption DEF Init
<1> QED BY <1>1, <1>2, <1>3 DEF RoundsInv, RoundsCounted, AttemptsBounded

\* What a round has used.
SameRound(s) ==
  /\ s.attempt = r.attempt /\ s.excluded = r.excluded
  /\ s.picked = r.picked /\ s.attempted = r.attempted

\* Steps within a round, and its end, count nothing.
LEMMA RoundsKept ==
  ASSUME TypeOK, RoundsInv, UNCHANGED <<auths, authEpochs, visits, maxRetryCredentials>>,
         \/ r'.at \in {"ended", "handler"} /\ r'.attempted = {}
         \/ Running /\ SameRound(r')
  PROVE  RoundsInv'
<1>1. CASE r'.at \in {"ended", "handler"} /\ r'.attempted = {}
  <2>1. IsFiniteSet(r'.attempted) /\ Cardinality(r'.attempted) = 0
    BY <1>1, FS_EmptySet
  <2>2. maxRetryCredentials \in Nat
    BY RetryAssumption DEF TypeOK
  <2> QED BY <1>1, <2>1, <2>2 DEF RoundsInv, RoundsCounted, AttemptsBounded, Running, At
<1>2. CASE Running /\ SameRound(r')
  BY <1>2 DEF SameRound, RoundsInv, RoundsCounted, AttemptsBounded
<1> QED BY <1>1, <1>2

\* What the operators make of a round.
LEMMA RoundFacts ==
  ASSUME TypeOK
  PROVE  /\ \A a : Ended(a).at = "ended" /\ Ended(a).attempted = {}
         /\ \A x : LET h == [Round(0, {}, "none") EXCEPT !.at = "handler", !.err = x]
                   IN h.at = "handler" /\ h.attempted = {}
         /\ GiveUp.at \in {"ended", "handler"} /\ GiveUp.attempted = {}
         /\ \A e \in Statuses, u, b \in BOOLEAN : SameRound(WithError(e, u, b))
         /\ \A s \in Request : SameRound(s) => SameRound(AtPick(s))
<1>1. /\ \A a : Ended(a).at = "ended" /\ Ended(a).attempted = {}
      /\ \A x : LET h == [Round(0, {}, "none") EXCEPT !.at = "handler", !.err = x]
                IN h.at = "handler" /\ h.attempted = {}
  BY DEF Ended, Round
<1>2. GiveUp.at \in {"ended", "handler"} /\ GiveUp.attempted = {}
  BY DEF GiveUp, Ended, Round
<1>3. \A e \in Statuses, u, b \in BOOLEAN : SameRound(WithError(e, u, b))
  BY DEF TypeOK, WithError, Request, SameRound
<1>4. \A s \in Request : SameRound(s) => SameRound(AtPick(s))
  BY DEF AtPick, Request, SameRound
<1> QED BY <1>1, <1>2, <1>3, <1>4

\* A credential is selected for the first time in its round, and only if its
\* limit reaches the round.
LEMMA RoundsPick ==
  ASSUME TypeOK, RoundsInv, NEW c \in Auths, pickNextMixed(c)
  PROVE  RoundsInv'
<1>1. /\ c \in auths /\ c \notin r.excluded /\ c \notin r.picked
      /\ r \in Request /\ Running /\ RoundsCounted
  BY DEF TypeOK, pickNextMixed, Candidates, tried, Running, At, RoundsInv
<1>2. r'.attempt = r.attempt /\ r'.excluded = r.excluded /\ r'.picked = r.picked \cup {c}
  BY <1>1, ZenonT(30) DEF pickNextMixed, Request
<1>3. r'.attempted \in {r.attempted, r.attempted \cup {c}}
  BY <1>1 DEF pickNextMixed, Request
<1>4. UNCHANGED <<auths, authEpochs, maxRetryCredentials>>
  BY DEF pickNextMixed, requestVars, managerVars
<1>5. \A d \in Auths : visits'[d] = visits[d] \/ (d = c /\ visits'[d] <= visits[d] + 1)
  BY RetryAssumption DEF pickNextMixed, TypeOK, Smaller
<1>6. RoundsCounted' /\ \A d \in Auths : authEpochs[d] = 1 => visits'[d] <= RequestRetry[d] + 1
  <2> SUFFICES ASSUME NEW d \in Auths, authEpochs[d] = 1
               PROVE  /\ visits'[d] <= r.attempt + 1
                      /\ d \notin r'.picked => visits'[d] <= r.attempt
                      /\ d \in auths \ r.excluded => r.attempt <= RequestRetry[d]
                      /\ visits'[d] <= RequestRetry[d] + 1
    BY <1>2, <1>4 DEF RoundsCounted
  <2>1. /\ visits[d] <= r.attempt + 1 /\ visits[d] <= RequestRetry[d] + 1
        /\ d \notin r.picked => visits[d] <= r.attempt
        /\ d \in auths \ r.excluded => r.attempt <= RequestRetry[d]
    BY <1>1 DEF RoundsCounted, RoundsInv, AttemptsBounded
  <2>2. visits[d] \in Nat /\ visits'[d] \in Nat /\ r.attempt \in Nat /\ RequestRetry[d] \in Nat
    BY <1>1, RoundTypes, RetryAssumption DEF TypeOK, Request, RoundSteps
  <2>3. CASE d = c
    BY <1>1, <1>2, <1>5, <2>1, <2>2, <2>3
  <2>4. CASE d # c
    BY <1>2, <1>5, <2>1, <2>4
  <2> QED BY <2>3, <2>4
<1>7. IsFiniteSet(r'.attempted)
  BY <1>3, FS_AddElement DEF RoundsInv
<1>8. maxRetryCredentials > 0 => Cardinality(r'.attempted) <= maxRetryCredentials
  <2> SUFFICES ASSUME maxRetryCredentials > 0
               PROVE  Cardinality(r'.attempted) <= maxRetryCredentials
    OBVIOUS
  <2>1. maxRetryCredentials \in Nat /\ Cardinality(r.attempted) \in Nat
    BY RetryAssumption, FS_CardinalityType DEF TypeOK, RoundsInv
  <2>2. Cardinality(r.attempted) < maxRetryCredentials
    BY <2>1 DEF pickNextMixed, CapReached
  <2>3. Cardinality(r.attempted \cup {c}) \in {Cardinality(r.attempted), Cardinality(r.attempted) + 1}
    BY FS_AddElement DEF RoundsInv
  <2> QED BY <1>3, <2>1, <2>2, <2>3
<1> QED BY <1>4, <1>6, <1>7, <1>8 DEF RoundsInv, AttemptsBounded

\* A new round excludes those whose limit does not reach it.
LEMMA RoundsNext ==
  ASSUME TypeOK, RoundsInv, NextRound
  PROVE  RoundsInv'
<1>1. /\ r'.attempt = r.attempt + 1 /\ r'.picked = {} /\ r'.attempted = {}
      /\ r'.excluded = requestRetryRoundExclusions(r.attempt + 1)
  BY DEF NextRound, Round
<1>2. Running /\ r.attempt \in Nat /\ \A c \in Auths : RequestRetry[c] \in Nat
  BY RetryAssumption DEF NextRound, Running, At, TypeOK, Request
<1>3. UNCHANGED <<auths, authEpochs, visits, maxRetryCredentials>>
  BY DEF NextRound, requestVars, managerVars, historyVars
<1>4. r'.excluded = {c \in auths : RequestRetry[c] < r.attempt + 1}
  BY <1>1, <1>2 DEF requestRetryRoundExclusions
<1>5. RoundsCounted'
  <2> SUFFICES ASSUME NEW c \in Auths, authEpochs[c] = 1
               PROVE  /\ visits[c] <= r.attempt + 1
                      /\ c \in auths \ r'.excluded => r.attempt + 1 <= RequestRetry[c]
    BY <1>1, <1>2, <1>3 DEF RoundsCounted, TypeOK
  <2>1. visits[c] <= r.attempt + 1
    BY <1>2 DEF RoundsInv, RoundsCounted
  <2>2. c \in auths \ r'.excluded => r.attempt + 1 <= RequestRetry[c]
    BY <1>2, <1>4
  <2> QED BY <2>1, <2>2
<1>6. IsFiniteSet(r'.attempted) /\ Cardinality(r'.attempted) = 0
  BY <1>1, FS_EmptySet
<1>7. maxRetryCredentials \in Nat
  BY RetryAssumption DEF TypeOK
<1> QED BY <1>3, <1>5, <1>6, <1>7 DEF RoundsInv, AttemptsBounded

\* The handler asks again: the rounds are counted anew.
LEMMA RoundsBootstrap ==
  ASSUME TypeOK, RoundsInv, BootstrapRetry
  PROVE  RoundsInv'
<1>1. /\ r'.attempt = 0 /\ r'.attempted = {}
      /\ \A c \in Auths : visits'[c] = 0 /\ RequestRetry[c] \in Nat
  BY RetryAssumption DEF BootstrapRetry, Round
<1>2. UNCHANGED <<auths, authEpochs, maxRetryCredentials>>
  BY DEF BootstrapRetry, managerVars
<1>3. IsFiniteSet(r'.attempted) /\ Cardinality(r'.attempted) = 0 /\ maxRetryCredentials \in Nat
  BY <1>1, FS_EmptySet, RetryAssumption DEF TypeOK
<1> QED BY <1>1, <1>2, <1>3 DEF RoundsInv, RoundsCounted, AttemptsBounded

\* Credentials come and go; one that comes is not one the rounds counted.
LEMMA RoundsRegistration ==
  ASSUME TypeOK, RoundsInv, NEW c \in Auths, Remove(c) \/ Register(c)
  PROVE  RoundsInv'
<1>1. UNCHANGED <<r, visits, maxRetryCredentials>>
  BY DEF Remove, Register, requestVars, historyVars
<1>2. CASE Remove(c)
  BY <1>1, <1>2 DEF Remove, RoundsInv, RoundsCounted, AttemptsBounded, Running, At
<1>3. CASE Register(c)
  <2>1. auths' = auths \cup {c} /\ authEpochs' = [authEpochs EXCEPT ![c] = @ + 1]
    BY <1>3 DEF Register
  <2>2. \A d \in Auths : authEpochs'[d] >= 1 /\ (authEpochs'[d] = 1 => d # c /\ authEpochs[d] = 1)
    BY <2>1 DEF TypeOK, RoundsInv
  <2> QED BY <1>1, <2>1, <2>2 DEF RoundsInv, RoundsCounted, AttemptsBounded, Running, At
<1> QED BY <1>2, <1>3

LEMMA RoundsStep == TypeOK /\ RoundsInv /\ [Next]_vars => RoundsInv'
<1> SUFFICES ASSUME TypeOK, RoundsInv, [Next]_vars PROVE RoundsInv'
  OBVIOUS
<1>0. r \in Request
  BY DEF TypeOK
<1> DEFINE Keeps == /\ UNCHANGED <<auths, authEpochs, visits, maxRetryCredentials>>
                    /\ \/ r'.at \in {"ended", "handler"} /\ r'.attempted = {}
                       \/ Running /\ SameRound(r')
<1>1. ASSUME Keeps PROVE RoundsInv'
  BY <1>1, RoundsKept
<1> USE DEF requestVars, managerVars, historyVars
<1>2. CASE RoundSteps
  <2>1. RoundEnds => Keeps
    <3>1. \A e, p : SameRound([r EXCEPT !.at = "closest", !.err = e, !.past = p])
      BY <1>0 DEF Request, SameRound
    <3>2. RoundEnds => Running
      BY DEF RoundEnds, Running, At
    <3>3. RoundEnds => r' = GiveUp \/ r' = Ended("error") \/ SameRound(r')
      <4> DEFINE e == IF r.err # "none" THEN r.err ELSE IF CapReached THEN "other" ELSE PickError
                 closing == [r EXCEPT !.at = "closest", !.err = e, !.past = Preferred]
      <4>1. RoundEnds => r' = GiveUp \/ r' = Ended("error") \/ r' = closing
        BY DEF RoundEnds
      <4>2. SameRound(closing)
        <5> HIDE DEF e
        <5> QED BY <3>1
      <4> HIDE DEF closing
      <4> QED BY <4>1, <4>2
    <3> QED BY <3>2, <3>3, RoundFacts DEF RoundEnds
  <2>2. shouldRetryAfterError => Keeps
    <3>1. \A w : SameRound([r EXCEPT !.at = "wait", !.err = "none", !.wait = w])
      BY <1>0 DEF Request, SameRound
    <3>2. shouldRetryAfterError => Running
      BY DEF shouldRetryAfterError, Running, At
    <3> QED BY <3>1, <3>2, RoundFacts DEF shouldRetryAfterError
  <2>3. WaitCancelled => Keeps
    BY RoundFacts DEF WaitCancelled
  <2> HIDE DEF Keeps
  <2> QED BY <1>1, <1>2, <2>1, <2>2, <2>3, RoundsPick, RoundsNext DEF RoundSteps
<1>3. CASE PrepareSteps
  <2>1. NotPrepared \/ PrepareBegins \/ Prepared => Keeps
    <3>1. NotPrepared \/ PrepareBegins \/ Prepared => Running
      BY DEF NotPrepared, PrepareBegins, Prepared, Running, At
    <3>2. NotPrepared \/ PrepareBegins \/ Prepared => r' = Ended("panic") \/ SameRound(r')
      BY <1>0 DEF NotPrepared, PrepareBegins, Prepared, Request, SameRound
    <3> QED BY <3>1, <3>2, RoundFacts DEF NotPrepared, PrepareBegins, Prepared
  <2>2. \A e \in Failures : PrepareFails(e) => Keeps
    <3> SUFFICES ASSUME NEW e \in Failures, PrepareFails(e) PROVE Keeps
      OBVIOUS
    <3>1. Running
      BY DEF PrepareFails, Running, At
    <3>2. SameRound(AtPick(WithError(StatusOf(e), FALSE, FALSE)))
      BY <1>0, StatusType, WithErrorType, RoundFacts
    <3> QED BY <3>1, <3>2, RoundFacts DEF PrepareFails
  <2> HIDE DEF Keeps
  <2> QED BY <1>1, <1>3, <2>1, <2>2 DEF PrepareSteps
<1>4. CASE CallSteps
  <2>1. \A e \in Failures, boot \in BOOLEAN :
          Report(e, boot) => r' = Ended("cancelled") \/ r' = Ended("error") \/ SameRound(r')
    <3> SUFFICES ASSUME NEW e \in Failures, NEW boot \in BOOLEAN, Report(e, boot)
                 PROVE  r' = Ended("cancelled") \/ r' = Ended("error") \/ SameRound(r')
      OBVIOUS
    <3>1. WithError(StatusOf(e), TRUE, boot) \in Request /\ SameRound(WithError(StatusOf(e), TRUE, boot))
      BY <1>0, StatusType, WithErrorType, RoundFacts
    <3> QED BY <3>1 DEF Report, SameRound, Request
  <2>2. \A m \in Models : CallUpstream(m) => Keeps
    BY <1>0 DEF CallUpstream, Request, SameRound, Running, At
  <2>3. StreamNotOpened \/ Intercepted \/ PoolExhausted => Keeps
    <3>1. /\ SameRound(AtPick(r)) /\ SameRound(AtPick(WithError("refused", FALSE, FALSE)))
          /\ PoolExhausted \/ Intercepted => Running
      BY <1>0, RoundFacts, WithErrorType DEF SameRound, Statuses, PoolExhausted, Intercepted, Running, At
    <3> QED BY <3>1, RoundFacts DEF StreamNotOpened, Intercepted, PoolExhausted
  <2>4. Responds => Keeps
    <3>1. SameRound([r EXCEPT !.at = "streaming"])
      BY <1>0 DEF Request, SameRound
    <3> QED BY <3>1, RoundFacts DEF Responds, Running, At
  <2>5. \A e \in Failures, boot \in BOOLEAN : CallFails(e, boot) => Keeps
    <3> SUFFICES ASSUME NEW e \in Failures, NEW boot \in BOOLEAN, CallFails(e, boot) PROVE Keeps
      OBVIOUS
    <3>1. SameRound([r EXCEPT !.at = "refresh", !.boot = boot]) /\ Running
      BY <1>0 DEF Request, SameRound, CallFails, Running, At
    <3>2. r' = Ended("cancelled") \/ r' = Ended("error") \/ SameRound(r')
      BY <2>1, <3>1 DEF CallFails
    <3> QED BY <3>1, <3>2, RoundFacts DEF CallFails
  <2>6. Refreshed => Keeps
    BY <1>0 DEF Refreshed, Request, SameRound, Running, At
  <2>7. RefreshFails => Keeps
    <3> SUFFICES ASSUME RefreshFails PROVE Keeps
      OBVIOUS
    <3>1. r.boot \in BOOLEAN /\ "unauthorized" \in Failures /\ Running
      BY <1>0 DEF Request, Failures, Cooling, RefreshFails, Running, At
    <3>2. r' = Ended("cancelled") \/ r' = Ended("error") \/ SameRound(r')
      BY <2>1, <3>1 DEF RefreshFails
    <3> QED BY <3>1, <3>2, RoundFacts DEF RefreshFails
  <2>8. EmptyStream => Keeps
    <3> SUFFICES ASSUME EmptyStream PROVE Keeps
      OBVIOUS
    <3>1. "denied" \in Failures /\ Running
      BY DEF Failures, Cooling, EmptyStream, Running, At
    <3>2. r' = Ended("cancelled") \/ r' = Ended("error") \/ SameRound(r')
      BY <2>1, <3>1 DEF EmptyStream
    <3> QED BY <3>1, <3>2, RoundFacts DEF EmptyStream
  <2> HIDE DEF Keeps
  <2> QED BY <1>1, <1>4, <2>2, <2>3, <2>4, <2>5, <2>6, <2>7, <2>8 DEF CallSteps
<1>5. CASE StreamSteps
  <2>1. Deliver => Keeps
    BY DEF Deliver, SameRound, Running, At
  <2>2. \A e \in Failures : StreamFails(e) => Keeps
    BY RoundFacts DEF StreamFails
  <2>3. StreamEnds \/ StreamAbandoned \/ StreamRefused \/ BootstrapFails => Keeps
    BY RoundFacts DEF StreamEnds, StreamAbandoned, StreamRefused, BootstrapFails
  <2> HIDE DEF Keeps
  <2> QED BY <1>1, <1>5, <2>1, <2>2, <2>3, RoundsBootstrap DEF StreamSteps
<1>6. CASE Surroundings \/ Tick \/ UNCHANGED vars
  <2>1. ASSUME UNCHANGED <<auths, authEpochs, visits, maxRetryCredentials>>, SameRound(r'), r'.at = r.at
        PROVE  RoundsInv'
    BY <2>1 DEF SameRound, RoundsInv, RoundsCounted, AttemptsBounded, Running, At
  <2>2. CASE Cancel \/ UNCHANGED vars
    BY <2>1, <2>2 DEF Cancel, vars, SameRound
  <2>3. ASSUME NEW c \in Auths, NEW m \in Models, NEW e \in {"none", "quota"}, OtherRequest(c, m, e)
        PROVE  RoundsInv'
    BY <2>1, <2>3 DEF OtherRequest, SameRound
  <2>4. CASE Tick
    <3>1. SameRound(r') /\ r'.at = r.at
      BY <1>0, <2>4 DEF Tick, Request, SameRound
    <3> QED BY <2>1, <2>4, <3>1 DEF Tick
  <2> QED BY <1>6, <2>2, <2>3, <2>4, RoundsRegistration DEF Surroundings
<1> QED BY <1>2, <1>3, <1>4, <1>5, <1>6 DEF Next, RequestSteps

\* A credential is used no more often than its own limit allows, and a round
\* uses no more credentials than max-retry-credentials.
THEOREM LimitsRespected == Spec => []AttemptsBounded
<1>1. Spec => []RoundsInv
  BY RoundsInit, RoundsStep, RetryTypes, PTL DEF Spec
<1>2. RoundsInv => AttemptsBounded
  BY DEF RoundsInv
<1> QED BY <1>1, <1>2, PTL

=============================================================================
