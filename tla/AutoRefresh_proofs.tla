------------------------- MODULE AutoRefresh_proofs -------------------------
(***************************************************************************)
(* Proofs about AutoRefresh, for any number of credentials, workers and    *)
(* requests and any bounds: a credential holds a token of its own          *)
(* registration, a refresh token is exchanged once, no credential is       *)
(* forgotten by the loop, and the loop does not sleep past what is due.    *)
(***************************************************************************)
EXTENDS AutoRefresh, WellFoundedInduction, TLAPS

\* What the two arguments need of the types; the times are integers.
Bases == [epoch : Nat, token : Nat, held : BOOLEAN]
Calls == [at : {"waiting", "calling", "done"}, id : Credentials, failed : Nat, base : Bases]
Tokens == [epoch : Nat, token : Nat, from : Nat, due : Int, hold : Int, bad : BOOLEAN]
Turns == [at : {"select", "due", "duePut", "mark", "send", "dirty", "dirtyPut"}, list : SUBSET Credentials,
          id : Credentials \cup {None}, time : Int, next : Int]
Typed ==
  /\ now \in Int /\ auths \in [Credentials -> Tokens]
  /\ authEpochs \in [Credentials -> Nat] /\ minted \in [Credentials -> Nat]
  /\ procs \in [Processes -> Calls \cup {ProcIdle}]
  /\ loop \in Turns /\ (loop.at \in {"mark", "send"} => loop.id \in Credentials)
  /\ dirty \subseteq Credentials /\ notifying \subseteq Credentials
  /\ jobs \in Seq(Credentials)
  /\ spent \subseteq Credentials \X Nat /\ edits \in [Credentials -> Tokens]

LEMMA Constants == Capacity \in Int /\ Lead \in Int /\ Backoff \in Int /\ None \in Int
BY BoundAssumption DEF None

LEMMA NoAuthType == /\ NoAuth \in Tokens /\ ~Present(NoAuth)
                    /\ NoAuth.token = 0 /\ NoAuth.from = NoAuth.epoch
BY DEF NoAuth, Tokens, Present

LEMMA ProcTypes == NoBase \in Bases /\ ProcIdle.at = "idle" /\ \A call \in Calls : call.at # "idle"
BY DEF ProcIdle, NoBase, Bases, Calls

-----------------------------------------------------------------------------
\* Types, action by action.

LEMMA FileType ==
  ASSUME NEW epoch \in Nat, NEW token \in Nat, NEW d \in Int, NEW hold \in Int
  PROVE  LET a == FromFile(epoch, token, d, hold)
         IN  a \in Tokens /\ a.epoch = epoch /\ a.token = token /\ a.from = epoch
BY DEF FromFile, Tokens

LEMMA TypedStored ==
  ASSUME Typed, NEW c \in Credentials, NEW a \in Tokens, Stored(c, a)
  PROVE  /\ auths' \in [Credentials -> Tokens] /\ minted' \in [Credentials -> Nat]
         /\ notifying' \subseteq Credentials
<1>1. Larger(minted[c], a.token) \in Nat
  BY DEF Larger, Typed, Tokens
<1> QED BY <1>1 DEF Stored, Typed

LEMMA EditedType ==
  ASSUME NEW a \in Tokens, NEW bad \in BOOLEAN
  PROVE  LET b == [a EXCEPT !.bad = bad]
         IN  b \in Tokens /\ b.epoch = a.epoch /\ b.token = a.token /\ b.from = a.from
BY DEF Tokens

\* What an update would store.
LEMMA UpdateShape ==
  ASSUME Typed, NEW c \in Credentials,
         UpdateEdited(c) \/ \E d \in Dues, token \in 1..(minted[c] + 1) : UpdateFromFile(c, token, d)
  PROVE  \E a \in Tokens : /\ Updated(c, a)
                          /\ \/ a.from = a.epoch
                             \/ a.from = edits[c].from /\ a.epoch = edits[c].epoch
<1>1. edits[c] \in Tokens /\ auths[c] \in Tokens /\ edits[c].hold \in Int /\ auths[c].epoch \in Nat
  BY DEF Typed, Tokens
<1>2. CASE UpdateEdited(c)
  <2> DEFINE bad == edits[c].bad /\ auths[c].token = edits[c].token
             a == [edits[c] EXCEPT !.bad = bad]
  <2>1. Updated(c, a)
    BY <1>2 DEF UpdateEdited
  <2>2. bad \in BOOLEAN
    BY <1>1 DEF Tokens
  <2> HIDE DEF bad
  <2>3. a \in Tokens /\ a.epoch = edits[c].epoch /\ a.from = edits[c].from
    BY <1>1, <2>2, EditedType
  <2> HIDE DEF a
  <2> QED BY <2>1, <2>3
<1>3. ASSUME NEW d \in Dues, NEW token \in 1..(minted[c] + 1), UpdateFromFile(c, token, d)
      PROVE  \E a \in Tokens : Updated(c, a) /\ a.from = a.epoch
  <2> DEFINE a == FromFile(auths[c].epoch, token, d, edits[c].hold)
  <2>1. Updated(c, a)
    BY <1>3 DEF UpdateFromFile
  <2>2. token \in Nat /\ d \in Int
    BY DEF Dues, Typed
  <2>3. a \in Tokens /\ a.epoch = auths[c].epoch /\ a.from = auths[c].epoch
    BY <1>1, <2>2, FileType
  <2> HIDE DEF a
  <2> QED BY <2>1, <2>3
<1> QED BY <1>2, <1>3

LEMMA TypedLifecycle ==
  ASSUME Typed, NEW c \in Credentials,
         Lifecycle(c) \/ Notify(c) \/ queueRefreshUnschedule(c)
  PROVE  Typed'
<1> USE DEF Typed, loopVars, historyVars, tellVars
<1>1. authEpochs[c] + 1 \in Nat /\ auths[c] \in Tokens
  OBVIOUS
<1>2. ASSUME NEW d \in Dues, NEW token \in 1..(minted[c] + 1), Register(c, token, d)
      PROVE  Typed'
  <2>1. FromFile(authEpochs[c] + 1, token, d, 0) \in Tokens
    <3>1. token \in Nat /\ d \in Int
      BY DEF Dues
    <3> QED BY <1>1, <3>1 DEF FromFile, Tokens
  <2>2. /\ auths' \in [Credentials -> Tokens] /\ minted' \in [Credentials -> Nat]
        /\ notifying' \subseteq Credentials
    BY <1>2, <2>1, TypedStored DEF Register
  <2> QED BY <1>1, <1>2, <2>2 DEF Register
<1>3. CASE \/ UpdateEdited(c)
           \/ \E d \in Dues, token \in 1..(minted[c] + 1) : UpdateFromFile(c, token, d)
  <2>1. PICK a \in Tokens : Updated(c, a)
    BY <1>3, UpdateShape
  <2>2. /\ auths' \in [Credentials -> Tokens] /\ minted' \in [Credentials -> Nat]
        /\ notifying' \subseteq Credentials
    BY <2>1, TypedStored DEF Updated
  <2>3. edits' \in [Credentials -> Tokens]
    BY <2>1, NoAuthType DEF Updated
  <2> QED BY <2>1, <2>2, <2>3 DEF Updated
<1>4. CASE Remove(c)
  BY <1>1, <1>4, NoAuthType DEF Remove
<1>5. ASSUME NEW ok \in BOOLEAN, MarkResult(c, ok)
      PROVE  Typed'
  <2>1. [auths[c] EXCEPT !.bad = ~ok] \in Tokens
    BY <1>1 DEF Tokens
  <2>2. auths' = [auths EXCEPT ![c] = [auths[c] EXCEPT !.bad = ~ok]]
    BY <1>5 DEF MarkResult
  <2>3. auths' \in [Credentials -> Tokens]
    BY <2>1, <2>2
  <2> QED BY <1>5, <2>3 DEF MarkResult
<1>6. CASE Notify(c) \/ queueRefreshUnschedule(c)
  BY <1>6 DEF Notify, queueReschedule, queueRefreshUnschedule
<1>7. CASE GetByID(c)
  BY <1>1, <1>7 DEF GetByID
<1> QED BY <1>2, <1>3, <1>4, <1>5, <1>6, <1>7 DEF Lifecycle

LEMMA CheckedType ==
  ASSUME Typed, NEW c \in Credentials
  PROVE  Checked(c) \in Int
<1>1. loop.time \in Int /\ auths[c].hold \in Int /\ auths[c].due \in Int
  BY DEF Typed, Turns, Tokens
<1> QED BY <1>1, Constants DEF Checked, nextRefreshCheckAt, Larger

LEMMA TypedLoop == ASSUME Typed, Loop PROVE Typed'
<1> USE Constants DEF Typed, historyVars, tellVars
<1>1. CASE TimerFires \/ Wake \/ DueDone \/ resetTimer
  <2>1. popDue(now) \subseteq Credentials
    BY DEF popDue, On
  <2>2. loop' \in Turns /\ loop'.at \notin {"mark", "send"}
    <3>1. LoopSelect \in Turns /\ LoopSelect.at = "select"
      BY DEF LoopSelect, Turns
    <3>2. ASSUME NEW L \in SUBSET Credentials, NEW t \in Int, NEW at \in {"due", "dirty"}
          PROVE  /\ [LoopSelect EXCEPT !.at = at, !.list = L, !.time = t] \in Turns
                 /\ [LoopSelect EXCEPT !.at = at, !.list = L, !.time = t].at = at
      BY DEF LoopSelect, Turns
    <3>3. loop.time \in Int /\ dirty \in SUBSET Credentials
      BY DEF Turns
    <3>4. CASE TimerFires
      BY <2>1, <3>2, <3>4 DEF TimerFires
    <3>5. CASE Wake \/ DueDone
      <4>1. loop' = [LoopSelect EXCEPT !.at = "dirty", !.list = dirty, !.time = now]
            \/ loop' = [LoopSelect EXCEPT !.at = "dirty", !.list = dirty, !.time = loop.time]
        BY <3>5 DEF Wake, DueDone, drainDirty
      <4> HIDE DEF Typed
      <4>2. ASSUME NEW t \in Int, loop' = [LoopSelect EXCEPT !.at = "dirty", !.list = dirty, !.time = t]
            PROVE  loop' \in Turns /\ loop'.at = "dirty"
        BY <3>2, <3>3, <4>2
      <4>3. now \in Int
        BY DEF Typed
      <4> QED BY <3>3, <4>1, <4>2, <4>3
    <3>6. CASE resetTimer
      BY <3>1, <3>6 DEF resetTimer
    <3> QED BY <1>1, <3>4, <3>5, <3>6
  <2> QED BY <1>1, <2>2 DEF TimerFires, Wake, DueDone, resetTimer, drainDirty
<1>2. ASSUME NEW c \in Credentials, HandleDue(c) \/ applyDirty(c)
      PROVE  Typed'
  <2>1. loop' \in Turns /\ (loop'.at \in {"mark", "send"} => loop'.id \in Credentials)
    <3>1. ASSUME NEW at \in {"duePut", "dirtyPut"}, NEW n \in Int,
                 loop' = [loop EXCEPT !.at = at, !.id = c, !.list = @ \ {c}, !.next = n]
          PROVE  loop' \in Turns /\ loop'.id = c
      BY <3>1 DEF Turns
    <3>2. ASSUME loop' = [loop EXCEPT !.at = "mark", !.id = c, !.list = @ \ {c}]
          PROVE  loop' \in Turns /\ loop'.id = c
      BY <3>2 DEF Turns
    <3>3. Checked(c) \in Int
      BY CheckedType
    <3>4. \/ loop' = [loop EXCEPT !.at = "mark", !.id = c, !.list = @ \ {c}]
          \/ \E at \in {"duePut", "dirtyPut"} :
               loop' = [loop EXCEPT !.at = at, !.id = c, !.list = @ \ {c}, !.next = Checked(c)]
      BY <1>2 DEF HandleDue, applyDirty
    <3> QED BY <3>1, <3>2, <3>3, <3>4
  <2> QED BY <1>2, <2>1 DEF HandleDue, applyDirty
<1>3. CASE markRefreshPending
  <2>1. loop.id \in Credentials /\ loop.time + Backoff \in Int /\ Checked(loop.id) \in Int
    <3>1. loop.id \in Credentials /\ loop.time + Backoff \in Int
      BY <1>3 DEF markRefreshPending, Turns
    <3> HIDE DEF Typed
    <3> QED BY <3>1, CheckedType
  <2>2. loop' \in Turns /\ loop'.id \in Credentials
    BY <1>3, <2>1 DEF markRefreshPending, Turns
  <2>3. [auths[loop.id] EXCEPT !.hold = loop.time + Backoff] \in Tokens
    <3>1. auths[loop.id] \in Tokens
      BY <2>1
    <3> QED BY <2>1, <3>1 DEF Tokens
  <2>4. auths' \in [Credentials -> Tokens]
    <3>1. UNCHANGED auths \/ auths' = [auths EXCEPT ![loop.id] = [auths[loop.id] EXCEPT !.hold = loop.time + Backoff]]
      BY <1>3 DEF markRefreshPending
    <3> QED BY <2>3, <3>1
  <2> QED BY <1>3, <2>1, <2>2, <2>4 DEF markRefreshPending, queueReschedule
<1>4. CASE Put
  <2>1. loop' \in Turns /\ loop'.at \notin {"mark", "send"}
    BY <1>4 DEF Put, Turns
  <2> QED BY <1>4, <2>1 DEF Put
<1>5. CASE SendJob
  <2>1. loop' \in Turns /\ loop'.at = "due" /\ loop.id \in Credentials
    BY <1>5 DEF SendJob, Turns
  <2> QED BY <1>5, <2>1 DEF SendJob
<1> QED BY <1>1, <1>2, <1>3, <1>4, <1>5 DEF Loop

LEMMA BaseType ==
  ASSUME NEW a \in Tokens
  PROVE  /\ Base(a) \in Bases
         /\ Base(a).epoch = a.epoch /\ Base(a).token = a.token
BY DEF Base, Tokens, Bases

LEMMA RenewedType ==
  ASSUME NEW a \in Tokens, NEW base \in Bases,
         NEW token \in Nat, NEW d \in Int, now \in Int
  PROVE  /\ Renewed(a, base, token, d) \in Tokens
         /\ Renewed(a, base, token, d).epoch = a.epoch
         /\ Renewed(a, base, token, d).token = token
         /\ Renewed(a, base, token, d).from = base.epoch
<1> DEFINE late == IF d <= now THEN now + Backoff ELSE 0
           hold == IF late # 0 \/ base.held THEN late ELSE a.hold
<1>1. hold \in Int
  <2>1. late \in Int /\ a.hold \in Int
    BY Constants DEF Tokens
  <2> QED BY <2>1
<1>2. Renewed(a, base, token, d) =
        [a EXCEPT !.token = token, !.from = base.epoch, !.due = d, !.bad = FALSE, !.hold = hold]
  BY DEF Renewed
<1> HIDE DEF hold
<1> QED BY <1>1, <1>2 DEF Tokens, Bases

LEMMA FailedType ==
  ASSUME NEW a \in Tokens, NEW u \in BOOLEAN, now \in Int
  PROVE  /\ Failed(a, u) \in Tokens /\ Failed(a, u).epoch = a.epoch
         /\ Failed(a, u).token = a.token /\ Failed(a, u).from = a.from
<1>1. ASSUME NEW hold \in Int, NEW bad \in BOOLEAN, NEW f, f = [a EXCEPT !.hold = hold, !.bad = bad]
      PROVE  f \in Tokens /\ f.epoch = a.epoch /\ f.token = a.token /\ f.from = a.from
  BY <1>1 DEF Tokens
<1>2. a.bad \in BOOLEAN /\ (a.bad /\ u) \in BOOLEAN
  BY DEF Tokens
<1>3. /\ Smaller(now + Backoff, Expiry(a)) \in Int
      /\ (IF u THEN 0 ELSE now + Backoff) \in Int
  BY Constants DEF Smaller, Expiry, Tokens
<1>4. \E hold \in Int, bad \in BOOLEAN : Failed(a, u) = [a EXCEPT !.hold = hold, !.bad = bad]
  <2>1. CASE now < Expiry(a)
    BY <1>2, <1>3, <2>1 DEF Failed
  <2>2. CASE ~(now < Expiry(a))
    BY <1>3, <2>2 DEF Failed
  <2> QED BY <2>1, <2>2
<1> QED BY <1>1, <1>4, ZenonT(30)

LEMMA TypedCall ==
  ASSUME Typed, NEW p \in Processes, TakeJob(p) \/ Begin(p) \/ Return(p) \/ Finish(p)
  PROVE  Typed'
<1> USE DEF Typed, loopVars, historyVars, tellVars, To
<1>1. CASE TakeJob(p)
  <2>1. Head(jobs) \in Credentials /\ Tail(jobs) \in Seq(Credentials)
    BY <1>1 DEF TakeJob
  <2>2. [ProcIdle EXCEPT !.at = "waiting", !.id = Head(jobs)] \in Calls
    BY <2>1, ProcTypes DEF Calls, ProcIdle
  <2> QED BY <1>1, <2>1, <2>2 DEF TakeJob
<1>2. CASE Begin(p)
  <2> DEFINE a == auths[procs[p].id]
  <2>0. procs[p] \in Calls
    BY <1>2, ProcTypes DEF Begin
  <2>1. [procs[p] EXCEPT !.at = "done", !.failed = 0] \in Calls
    BY <2>0 DEF Calls
  <2>2. CASE ~Present(a) \/ Reusable(a, procs[p].failed)
    BY <1>2, <2>1, <2>2 DEF Begin
  <2>3. CASE ~(~Present(a) \/ Reusable(a, procs[p].failed))
    <3>1. procs[p].id \in Credentials
      BY <2>0 DEF Calls
    <3>2. [procs[p] EXCEPT !.at = "calling", !.failed = 0, !.base = Base(a)] \in Calls
      BY <2>0, <3>1, BaseType DEF Calls
    <3> QED BY <1>2, <2>3, <3>2 DEF Begin
  <2> QED BY <2>2, <2>3
<1>3. ASSUME NEW c \in Credentials, Calling(p, c),
             procs' = [procs EXCEPT ![p] = [procs[p] EXCEPT !.at = "done", !.base = NoBase]]
      PROVE  procs' \in [Processes -> Calls \cup {ProcIdle}] /\ procs[p].base \in Bases
  <2>1. procs[p] \in Calls
    BY <1>3, ProcTypes DEF Calling
  <2>2. [procs[p] EXCEPT !.at = "done", !.base = NoBase] \in Calls /\ procs[p].base \in Bases
    BY <2>1, ProcTypes DEF Calls
  <2> QED BY <1>3, <2>2
<1>4. ASSUME NEW c \in Credentials, NEW d \in Dues, RefreshSucceeds(p, c, d)
      PROVE  Typed'
  <2>1. minted[c] + 1 \in Nat /\ d \in Int /\ procs[p].base \in Bases /\ procs[p].base.token \in Nat
    BY <1>3, <1>4 DEF RefreshSucceeds, Dues, Bases
  <2>2. Renewed(auths[c], procs[p].base, minted[c] + 1, d) \in Tokens
    BY <2>1, RenewedType
  <2>3. spent' \subseteq Credentials \X Nat
    BY <1>4, <2>1 DEF RefreshSucceeds
  <2> QED BY <1>3, <1>4, <2>1, <2>2, <2>3 DEF RefreshSucceeds
<1>5. ASSUME NEW c \in Credentials, NEW u \in BOOLEAN, RefreshFails(p, c, u)
      PROVE  Typed'
  <2>1. Failed(auths[c], u) \in Tokens
    BY FailedType
  <2> QED BY <1>3, <1>5, <2>1 DEF RefreshFails
<1>6. ASSUME NEW c \in Credentials, RefreshCancelled(p, c)
      PROVE  Typed'
  BY <1>3, <1>6 DEF RefreshCancelled
<1>7. CASE Finish(p)
  <2>1. procs[p].id \in Credentials
    BY <1>7, ProcTypes DEF Finish, Calls
  <2> QED BY <1>7, <2>1, ProcTypes DEF Finish, queueReschedule
<1> QED BY <1>1, <1>2, <1>4, <1>5, <1>6, <1>7 DEF Return

LEMMA TypedRequest ==
  ASSUME Typed, NEW p \in Requests, NEW c \in Credentials, NEW f \in 0..minted[c], Request(p, c, f)
  PROVE  Typed'
<1>1. f \in Nat
  OBVIOUS
<1>2. [ProcIdle EXCEPT !.at = "waiting", !.id = c, !.failed = f] \in Calls
  BY <1>1, ProcTypes DEF Calls, ProcIdle
<1>3. p \in Processes
  BY DEF Processes
<1> QED BY <1>2, <1>3 DEF Request, To, Typed, loopVars, tellVars, historyVars

\* Every step keeps the types.
LEMMA TypedStep == Typed /\ [Next]_vars => Typed'
<1> SUFFICES ASSUME Typed, [Next]_vars PROVE Typed'
  OBVIOUS
<1>1. CASE Tick \/ UNCHANGED vars
  BY <1>1 DEF Tick, vars, Typed, loopVars, tellVars, historyVars
<1> QED BY <1>1, TypedLifecycle, TypedLoop, TypedRequest, TypedCall DEF Next

THEOREM RefreshTypes == Spec => []Typed
<1>1. Init => Typed
  <2> SUFFICES ASSUME Init PROVE Typed
    OBVIOUS
  <2>1. PICK due \in [Credentials -> {1, 2}] : auths = [c \in Credentials |-> Loaded(c, due[c])]
    BY DEF Init
  <2>2. \A c \in Credentials : Loaded(c, due[c]) \in Tokens
    BY <2>1 DEF Loaded, Tokens
  <2>3. loop \in Turns /\ loop.at = "select"
    BY Constants DEF Init, LoopSelect, Turns
  <2>4. jobs \in Seq(Credentials) /\ spent \subseteq Credentials \X Nat
    BY DEF Init
  <2>5. edits \in [Credentials -> Tokens]
    BY NoAuthType DEF Init
  <2> QED BY <2>1, <2>2, <2>3, <2>4, <2>5 DEF Init, Typed
<1> QED BY <1>1, TypedStep, PTL DEF Spec

-----------------------------------------------------------------------------
\* Why a refresh token is exchanged once: tokens are issued in order, the one a
\* credential holds is unused unless somebody has stored it again, calls for one
\* credential exclude each other, and a call whose token the credential still holds
\* is of the same registration, or the token has been stored again.
Once(c, token) == <<c, token>> \in spent => <<c, token>> \in restored
Holds(c) == /\ auths[c].token <= minted[c]
            /\ Present(auths[c]) => Once(c, auths[c].token)
Edited(c) == edits[c].token <= minted[c] /\ edits[c].from = edits[c].epoch
UsedBefore == \A c \in Credentials : \A t \in Nat : <<c, t>> \in spent => t <= minted[c]
CallOnce(p) ==
  \A c \in Credentials : Calling(p, c) =>
    /\ procs[p].base.token <= minted[c] /\ Once(c, procs[p].base.token)
    /\ \A q \in Processes : Calling(q, c) => q = p
    /\ Present(auths[c]) /\ auths[c].token = procs[p].base.token
         => \/ auths[c].epoch = procs[p].base.epoch
            \/ <<c, procs[p].base.token>> \in restored
TokenInv == /\ TokenOfThisIncarnation
            /\ \A c \in Credentials : Holds(c) /\ Edited(c)
            /\ UsedBefore
            /\ \A p \in Processes : CallOnce(p)

\* Steps that neither issue a token nor begin a call.
LEMMA TokenQuiet ==
  ASSUME Typed, TokenInv, UNCHANGED historyVars,
         \A c \in Credentials : /\ auths'[c].epoch = auths[c].epoch
                                /\ auths'[c].token = auths[c].token /\ auths'[c].from = auths[c].from
                                /\ edits'[c] \in {edits[c], auths[c], NoAuth},
         \A p \in Processes : procs'[p].at = "calling" => procs'[p] = procs[p]
  PROVE  TokenInv'
<1> USE DEF historyVars
<1>1. \A p \in Processes, c \in Credentials : Calling(p, c)' => Calling(p, c) /\ procs'[p] = procs[p]
  BY DEF Calling
<1>2. \A p \in Processes : CallOnce(p)'
  BY <1>1 DEF TokenInv, CallOnce, Present, Once
<1>3. ASSUME NEW c \in Credentials PROVE Edited(c)'
  <2>1. auths[c].token <= minted[c] /\ auths[c].from = auths[c].epoch /\ minted[c] >= 0
    BY DEF TokenInv, Holds, TokenOfThisIncarnation, Typed
  <2> QED BY <2>1, NoAuthType DEF TokenInv, Edited
<1> QED BY <1>2, <1>3 DEF TokenInv, TokenOfThisIncarnation, Holds, UsedBefore, Present, Once

\* A credential is stored, with whatever token: one that has been exchanged or is
\* being exchanged for another registration counts as stored again.
LEMMA TokenStored ==
  ASSUME Typed, TokenInv, NEW c \in Credentials, NEW n \in Tokens, Stored(c, n),
         n.from = n.epoch, UNCHANGED <<procs, spent>>,
         edits' = edits \/ edits' = [edits EXCEPT ![c] = NoAuth]
  PROVE  TokenInv'
<1>1. /\ auths'[c] = n /\ minted[c] \in Nat /\ minted'[c] \in Nat /\ n.token \in Nat
      /\ minted[c] <= minted'[c] /\ n.token <= minted'[c]
      /\ \A d \in Credentials \ {c} : auths'[d] = auths[d] /\ minted'[d] = minted[d]
      /\ restored \subseteq restored'
  <2>1. minted[c] \in Nat /\ n.token \in Nat
    BY DEF Typed, Tokens
  <2>2. /\ auths' = [auths EXCEPT ![c] = n] /\ restored \subseteq restored'
        /\ minted' = [minted EXCEPT ![c] = Larger(minted[c], n.token)]
    BY DEF Stored
  <2>3. auths'[c] = n /\ minted'[c] = Larger(minted[c], n.token)
    BY <2>2 DEF Typed
  <2>4. \A d \in Credentials \ {c} : auths'[d] = auths[d] /\ minted'[d] = minted[d]
    BY <2>2 DEF Typed
  <2> QED BY <2>1, <2>2, <2>3, <2>4 DEF Larger
<1>2. /\ <<c, n.token>> \in spent => <<c, n.token>> \in restored'
      /\ \A p \in Processes : Calling(p, c) /\ procs[p].base.token = n.token
            => procs[p].base.epoch = n.epoch \/ <<c, n.token>> \in restored'
  BY DEF Stored, Restored
<1>3. \A d \in Credentials : Holds(d)'
  BY <1>1, <1>2 DEF TokenInv, Holds, Once
<1>4. ASSUME NEW d \in Credentials PROVE Edited(d)'
  <2>1. CASE edits'[d] = edits[d]
    <3>1. edits[d].token <= minted[d] /\ edits[d].token \in Nat /\ minted[d] \in Nat
          /\ edits[d].from = edits[d].epoch
      BY DEF TokenInv, Edited, Typed, Tokens
    <3> QED BY <1>1, <2>1, <3>1 DEF Edited
  <2>2. CASE edits'[d] = NoAuth
    <3>1. minted'[d] >= 0
      <4>1. d # c => minted'[d] = minted[d] /\ minted[d] \in Nat
        BY <1>1 DEF Typed
      <4> QED BY <1>1, <4>1
    <3> QED BY <2>2, <3>1, NoAuthType DEF Edited
  <2> QED BY <2>1, <2>2 DEF Typed
<1>5. UsedBefore'
  <2>1. ASSUME NEW d \in Credentials, NEW t \in Nat, <<d, t>> \in spent
        PROVE  t <= minted'[d]
    <3>1. t <= minted[d] /\ minted[d] \in Nat
      BY <2>1 DEF TokenInv, UsedBefore, Typed
    <3>2. minted[d] <= minted'[d] /\ minted'[d] \in Nat
      BY <1>1, <3>1
    <3> QED BY <3>1, <3>2
  <2> QED BY <2>1 DEF UsedBefore
<1>6. ASSUME NEW p \in Processes PROVE CallOnce(p)'
  <2>1. ASSUME NEW d \in Credentials, Calling(p, d)
        PROVE  /\ procs[p].base.token <= minted'[d] /\ Once(d, procs[p].base.token)'
               /\ Present(auths'[d]) /\ auths'[d].token = procs[p].base.token
                    => \/ auths'[d].epoch = procs[p].base.epoch
                       \/ <<d, procs[p].base.token>> \in restored'
    <3>1. /\ procs[p].base.token <= minted[d] /\ Once(d, procs[p].base.token)
          /\ Present(auths[d]) /\ auths[d].token = procs[p].base.token
               => \/ auths[d].epoch = procs[p].base.epoch
                  \/ <<d, procs[p].base.token>> \in restored
      BY <2>1 DEF TokenInv, CallOnce
    <3>2. procs[p].base.token \in Nat
      BY <2>1, ProcTypes DEF Calling, Typed, Calls, Bases
    <3>3. Once(d, procs[p].base.token)'
      BY <1>1, <3>1 DEF Once
    <3>4. CASE d = c
      BY <1>1, <1>2, <2>1, <3>1, <3>2, <3>3, <3>4
    <3>5. CASE d # c
      BY <1>1, <3>1, <3>3, <3>5
    <3> QED BY <3>4, <3>5
  <2>2. /\ procs' = procs /\ \A q \in Processes, d \in Credentials : Calling(q, d)' <=> Calling(q, d)
    BY DEF Calling
  <2> QED BY <2>1, <2>2 DEF TokenInv, CallOnce
<1>7. TokenOfThisIncarnation'
  BY <1>1 DEF TokenInv, TokenOfThisIncarnation
<1> QED BY <1>3, <1>4, <1>5, <1>6, <1>7 DEF TokenInv

\* A call begins with the token the credential holds, and is the only one.
LEMMA TokenTaken ==
  ASSUME Typed, TokenInv, NEW p \in Processes, Begin(p)
  PROVE  TokenInv'
<1> DEFINE c == procs[p].id
           a == auths[c]
<1>1. procs[p] \in Calls /\ c \in Credentials /\ a \in Tokens
  BY ProcTypes DEF Begin, Typed, Calls
<1>2. CASE ~Present(a) \/ Reusable(a, procs[p].failed)
  <2>1. procs' = [procs EXCEPT ![p] = [procs[p] EXCEPT !.at = "done", !.failed = 0]]
    BY <1>2 DEF Begin, To
  <2>2. [procs[p] EXCEPT !.at = "done", !.failed = 0].at # "calling"
    BY <1>1 DEF Calls
  <2>3. \A q \in Processes : procs'[q].at = "calling" => procs'[q] = procs[q]
    BY <2>1, <2>2 DEF Typed
  <2> QED BY <2>3, TokenQuiet DEF Begin, tellVars
<1>3. CASE Present(a) /\ ~Reusable(a, procs[p].failed)
  <2> DEFINE n == [procs[p] EXCEPT !.at = "calling", !.failed = 0, !.base = Base(a)]
  <2>1. procs' = [procs EXCEPT ![p] = n]
    BY <1>3 DEF Begin, To
  <2>2. n.id = c /\ n.base = Base(a)
    BY <1>1 DEF Calls
  <2>3. procs'[p].id = c /\ procs'[p].base = Base(a) /\ \A q \in Processes \ {p} : procs'[q] = procs[q]
    BY <2>1, <2>2 DEF Typed
  <2>4. UNCHANGED <<auths, minted, spent, restored, edits>> /\ Unlocked(c)
    BY DEF Begin, historyVars, tellVars
  <2> HIDE DEF n
  <2>5. ASSUME NEW d \in Credentials, d = c
        PROVE  /\ procs'[p].base.token <= minted'[d]
               /\ <<d, procs'[p].base.token>> \in spent' => <<d, procs'[p].base.token>> \in restored'
               /\ \A q \in Processes : Calling(q, d)' => q = p
               /\ auths'[d].epoch = procs'[p].base.epoch
    <3>1. procs'[p].base.token = auths[d].token /\ procs'[p].base.epoch = auths[d].epoch
      BY <1>1, <2>3, <2>5, BaseType
    <3>2. auths[d].token <= minted[d] /\ Once(d, auths[d].token)
      BY <1>3, <2>5 DEF TokenInv, Holds
    <3>3. \A q \in Processes : Calling(q, d)' => q = p
      BY <2>3, <2>4, <2>5 DEF Calling, Unlocked
    <3> QED BY <2>4, <3>1, <3>2, <3>3 DEF Once
  <2>7. CallOnce(p)'
    <3>1. ASSUME NEW d \in Credentials, Calling(p, d)'
          PROVE  d = c
      BY <2>3, <3>1 DEF Calling
    <3> QED BY <2>5, <3>1 DEF CallOnce, Once
  <2>6. ASSUME NEW q \in Processes \ {p} PROVE CallOnce(q)'
    <3>1. ASSUME NEW d \in Credentials, Calling(q, d)
          PROVE  Calling(q, d)' /\ d # c
      BY <2>3, <2>4, <3>1 DEF Calling, Unlocked
    <3>2. \A d \in Credentials : Calling(q, d)' => Calling(q, d)
      BY <2>3 DEF Calling
    <3>3. \A d \in Credentials \ {c}, o \in Processes : Calling(o, d)' => Calling(o, d)
      BY <2>3 DEF Calling
    <3>4. procs'[q] = procs[q]
      BY <2>3
    <3> QED BY <2>4, <3>1, <3>2, <3>3, <3>4 DEF TokenInv, CallOnce, Once
  <2> QED BY <2>4, <2>6, <2>7 DEF TokenInv, TokenOfThisIncarnation, Holds, UsedBefore, Edited, Once
<1> QED BY <1>2, <1>3

\* The provider has exchanged the token: the result is kept only by the
\* registration it was asked for.
LEMMA TokenExchanged ==
  ASSUME Typed, TokenInv, NEW p \in Processes, NEW c \in Credentials, NEW d \in Dues,
         RefreshSucceeds(p, c, d)
  PROVE  TokenInv'
<1> DEFINE base == procs[p].base
           new == minted[c] + 1
<1>1. /\ Calling(p, c) /\ procs[p] \in Calls /\ base \in Bases /\ base.token \in Nat
      /\ auths[c] \in Tokens /\ minted[c] \in Nat /\ new \in Nat /\ d \in Int /\ now \in Int
  BY ProcTypes DEF RefreshSucceeds, Calling, Typed, Calls, Bases, Dues
<1>2. /\ base.token <= minted[c]
      /\ \A q \in Processes : Calling(q, c) => q = p
      /\ Present(auths[c]) /\ auths[c].token = base.token
           => auths[c].epoch = base.epoch \/ <<c, base.token>> \in restored
  BY <1>1 DEF TokenInv, CallOnce
<1>3. /\ spent' = spent \cup {<<c, base.token>>} /\ minted'[c] = new
      /\ \A o \in Credentials \ {c} : minted'[o] = minted[o] /\ auths'[o] = auths[o]
      /\ edits' = edits
      /\ \A o \in Credentials \ {c}, t \in Nat : <<o, t>> \in restored => <<o, t>> \in restored'
  BY <1>1 DEF RefreshSucceeds, Typed
<1>4. procs'[p].at = "done" /\ \A q \in Processes \ {p} : procs'[q] = procs[q]
  <2>1. [procs[p] EXCEPT !.at = "done", !.base = NoBase].at = "done"
    BY <1>1 DEF Calls
  <2> QED BY <2>1 DEF RefreshSucceeds, To, Typed
<1>5. Holds(c)' /\ auths'[c].from = auths'[c].epoch
  <2>1. CASE SameIncarnation(c, base)
    <3>1. auths'[c] = Renewed(auths[c], base, new, d)
      BY <2>1 DEF RefreshSucceeds, Typed
    <3>2. auths'[c].token = new /\ auths'[c].from = base.epoch /\ auths'[c].epoch = auths[c].epoch
      <4>1. now \in Int /\ auths[c] \in Tokens
        BY <1>1
      <4>2. ASSUME NEW b \in Bases, NEW t \in Nat, NEW e \in Int
            PROVE  /\ Renewed(auths[c], b, t, e).token = t /\ Renewed(auths[c], b, t, e).from = b.epoch
                   /\ Renewed(auths[c], b, t, e).epoch = auths[c].epoch
        BY <4>1, RenewedType, Z3
      <4> QED BY <1>1, <3>1, <4>2
    <3>3. <<c, new>> \notin spent /\ base.token # new
      BY <1>1, <1>2 DEF TokenInv, UsedBefore
    <3>4. <<c, new>> \notin spent'
      BY <1>3, <3>3
    <3>5. minted'[c] = new /\ new <= new
      BY <1>1, <1>3
    <3> HIDE DEF new
    <3> QED BY <2>1, <3>2, <3>4, <3>5 DEF Holds, SameIncarnation, Once
  <2>2. CASE ~SameIncarnation(c, base)
    <3>1. auths'[c] = auths[c] /\ auths[c].token <= minted[c] /\ auths[c].token \in Nat
      BY <1>1, <2>2 DEF RefreshSucceeds, TokenInv, Holds, Tokens
    <3>2. Present(auths[c]) => Once(c, auths[c].token)'
      <4>1. restored' = restored
        BY <2>2 DEF RefreshSucceeds
      <4> QED BY <1>2, <1>3, <2>2, <3>1, <4>1 DEF SameIncarnation, TokenInv, Holds, Once
    <3>3. auths[c].token <= new
      BY <1>1, <3>1
    <3> QED BY <1>3, <3>1, <3>2, <3>3 DEF Holds, TokenInv, TokenOfThisIncarnation, Once
  <2> QED BY <2>1, <2>2
<1>6. ASSUME NEW o \in Credentials \ {c} PROVE Holds(o)'
  <2>1. auths[o].token \in Nat
    BY DEF Typed, Tokens
  <2> QED BY <1>3, <2>1 DEF TokenInv, Holds, Once
<1>7. UsedBefore'
  <2>1. ASSUME NEW o \in Credentials, NEW t \in Nat, <<o, t>> \in spent'
        PROVE  t <= minted'[o]
    <3>1. CASE <<o, t>> \in spent
      <4>1. t <= minted[o] /\ minted[o] \in Nat
        BY <3>1 DEF TokenInv, UsedBefore, Typed
      <4>2. o = c => minted'[o] = minted[o] + 1
        BY <1>3
      <4>3. o # c => minted'[o] = minted[o]
        BY <1>3
      <4> QED BY <4>1, <4>2, <4>3
    <3>2. CASE <<o, t>> \notin spent
      <4>1. o = c /\ t = base.token
        BY <1>3, <2>1, <3>2
      <4> QED BY <1>1, <1>2, <1>3, <4>1
    <3> QED BY <3>1, <3>2
  <2> QED BY <2>1 DEF UsedBefore
<1>8. ASSUME NEW q \in Processes PROVE CallOnce(q)'
  <2>1. ASSUME NEW o \in Credentials, Calling(q, o)'
        PROVE  q # p /\ o # c /\ Calling(q, o) /\ procs'[q] = procs[q]
    <3>1. q # p
      BY <1>4, <2>1 DEF Calling
    <3>2. Calling(q, o) /\ procs'[q] = procs[q]
      BY <1>4, <2>1, <3>1 DEF Calling
    <3> QED BY <1>2, <3>1, <3>2
  <2>2. \A o \in Credentials, r \in Processes : Calling(r, o)' => Calling(r, o)
    BY <1>4 DEF Calling
  <2>3. ASSUME NEW o \in Credentials, Calling(q, o)'
        PROVE  /\ procs'[q].base.token <= minted'[o]
               /\ <<o, procs'[q].base.token>> \in spent' => <<o, procs'[q].base.token>> \in restored'
               /\ Present(auths'[o]) /\ auths'[o].token = procs'[q].base.token
                    => \/ auths'[o].epoch = procs'[q].base.epoch
                       \/ <<o, procs'[q].base.token>> \in restored'
    <3>1. Calling(q, o) /\ o # c /\ procs'[q] = procs[q] /\ procs[q].base.token \in Nat
      BY <2>1, <2>3, ProcTypes DEF Calling, Typed, Calls, Bases
    <3>2. CallOnce(q)
      BY DEF TokenInv
    <3> QED BY <1>3, <3>1, <3>2 DEF CallOnce, Once
  <2>4. \A o \in Credentials, r \in Processes : Calling(q, o)' /\ Calling(r, o)' => r = q
    BY <2>2 DEF TokenInv, CallOnce
  <2> QED BY <2>3, <2>4 DEF CallOnce, Once
<1>9. ASSUME NEW o \in Credentials PROVE Edited(o)'
  <2>1. /\ edits[o].token <= minted[o] /\ edits[o].token \in Nat /\ minted[o] \in Nat
        /\ edits[o].from = edits[o].epoch
    BY DEF TokenInv, Edited, Typed, Tokens
  <2>2. minted'[o] \in Nat /\ minted[o] <= minted'[o]
    <3>1. CASE o = c
      BY <1>1, <1>3, <3>1
    <3>2. CASE o # c
      BY <1>3, <2>1, <3>2
    <3> QED BY <3>1, <3>2
  <2> QED BY <1>3, <2>1, <2>2 DEF Edited
<1> QED BY <1>3, <1>5, <1>6, <1>7, <1>8, <1>9 DEF TokenInv, TokenOfThisIncarnation

\* Registrations, replaced files, removals and reported outcomes.
LEMMA TokenLifecycle ==
  ASSUME Typed, TokenInv, NEW c \in Credentials, Lifecycle(c)
  PROVE  TokenInv'
<1> USE DEF historyVars
<1>1. auths[c] \in Tokens
  BY DEF Typed
<1>2. ASSUME NEW d \in Dues, NEW token \in 1..(minted[c] + 1), Register(c, token, d)
      PROVE  TokenInv'
  <2> DEFINE n == FromFile(authEpochs[c] + 1, token, d, 0)
  <2>1. Stored(c, n) /\ UNCHANGED <<procs, spent, edits>>
    BY <1>2 DEF Register
  <2>2. n \in Tokens /\ n.from = n.epoch
    <3>1. token \in Nat /\ d \in Int /\ authEpochs[c] + 1 \in Nat
      BY DEF Typed, Dues
    <3> QED BY <3>1 DEF FromFile, Tokens
  <2> HIDE DEF n
  <2> QED BY <2>1, <2>2, TokenStored
<1>3. CASE \/ UpdateEdited(c)
           \/ \E d \in Dues, token \in 1..(minted[c] + 1) : UpdateFromFile(c, token, d)
  <2>1. PICK n \in Tokens : /\ Updated(c, n)
                            /\ \/ n.from = n.epoch
                               \/ n.from = edits[c].from /\ n.epoch = edits[c].epoch
    BY <1>3, UpdateShape
  <2>2. n.from = n.epoch
    BY <2>1 DEF TokenInv, Edited
  <2>3. edits' = [edits EXCEPT ![c] = NoAuth] /\ UNCHANGED <<procs, spent>>
    BY <2>1 DEF Updated
  <2>4. CASE Stored(c, n)
    BY <2>2, <2>3, <2>4, TokenStored
  <2>5. CASE UNCHANGED <<auths, notifying, minted, restored>>
    <3>1. \A d \in Credentials : edits'[d] \in {edits[d], auths[d], NoAuth}
      BY <2>3 DEF Typed
    <3> QED BY <2>3, <2>5, <3>1, TokenQuiet
  <2> QED BY <2>1, <2>4, <2>5 DEF Updated
<1>4. CASE Remove(c)
  <2>1. /\ auths'[c] = NoAuth /\ UNCHANGED <<procs, minted, spent, restored, edits>> /\ minted[c] \in Nat
        /\ \A d \in Credentials \ {c} : auths'[d] = auths[d]
    BY <1>4 DEF Remove, Typed
  <2>2. NoAuth.token = 0 /\ NoAuth.from = NoAuth.epoch /\ ~Present(NoAuth)
    BY NoAuthType
  <2>3. \A d \in Credentials : Holds(d)' /\ auths'[d].from = auths'[d].epoch
    <3>1. Holds(c)'
      BY <2>1, <2>2 DEF Holds
    <3>2. \A d \in Credentials \ {c} : Holds(d)'
      BY <2>1 DEF Holds, TokenInv, Once
    <3> QED BY <2>1, <2>2, <3>1, <3>2 DEF TokenInv, TokenOfThisIncarnation
  <2>4. \A p \in Processes : CallOnce(p)'
    BY <2>1, <2>2 DEF TokenInv, CallOnce, Calling, Once
  <2> QED BY <2>1, <2>3, <2>4 DEF TokenInv, TokenOfThisIncarnation, UsedBefore, Edited
<1>5. ASSUME NEW ok \in BOOLEAN, MarkResult(c, ok)
      PROVE  TokenInv'
  <2>1. \A d \in Credentials : /\ auths'[d].epoch = auths[d].epoch
                               /\ auths'[d].token = auths[d].token /\ auths'[d].from = auths[d].from
    <3>1. auths' = [auths EXCEPT ![c] = [auths[c] EXCEPT !.bad = ~ok]]
      BY <1>5 DEF MarkResult
    <3>2. /\ auths'[c] = [auths[c] EXCEPT !.bad = ~ok]
          /\ \A d \in Credentials \ {c} : auths'[d] = auths[d]
      BY <3>1 DEF Typed
    <3> QED BY <1>1, <3>2 DEF Tokens
  <2> QED BY <1>5, <2>1, TokenQuiet DEF MarkResult, tellVars
<1>6. CASE GetByID(c)
  <2>1. \A d \in Credentials : edits'[d] \in {edits[d], auths[d], NoAuth}
    BY <1>6 DEF GetByID, Typed
  <2> QED BY <1>6, <2>1, TokenQuiet DEF GetByID
<1> QED BY <1>2, <1>3, <1>4, <1>5, <1>6 DEF Lifecycle

\* Calls that fail or are given up, and those that have not begun.
LEMMA TokenCall ==
  ASSUME Typed, TokenInv, NEW p \in Processes,
         TakeJob(p) \/ Begin(p) \/ Return(p) \/ Finish(p)
  PROVE  TokenInv'
<1>1. ASSUME NEW n, n.at # "calling", procs' = [procs EXCEPT ![p] = n],
             UNCHANGED historyVars, edits' = edits,
             \A c \in Credentials : /\ auths'[c].epoch = auths[c].epoch
                                    /\ auths'[c].token = auths[c].token /\ auths'[c].from = auths[c].from
      PROVE  TokenInv'
  <2>1. \A q \in Processes : procs'[q].at = "calling" => procs'[q] = procs[q]
    BY <1>1 DEF Typed
  <2> QED BY <1>1, <2>1, TokenQuiet
<1>2. CASE TakeJob(p) \/ Finish(p)
  <2>1. \E n : n.at # "calling" /\ procs' = [procs EXCEPT ![p] = n]
    <3>1. CASE TakeJob(p)
      <4>1. [ProcIdle EXCEPT !.at = "waiting", !.id = Head(jobs)].at = "waiting"
        BY DEF ProcIdle
      <4> QED BY <3>1, <4>1 DEF TakeJob, To
    <3>2. CASE Finish(p)
      BY <3>2, ProcTypes DEF Finish, To
    <3> QED BY <1>2, <3>1, <3>2
  <2>2. UNCHANGED <<auths, historyVars, edits>>
    BY <1>2 DEF TakeJob, Finish, tellVars
  <2> QED BY <1>1, <2>1, <2>2
<1>3. ASSUME NEW c \in Credentials, Calling(p, c)
      PROVE  [procs[p] EXCEPT !.at = "done", !.base = NoBase].at = "done"
  <2>1. procs[p] \in Calls
    BY <1>3, ProcTypes DEF Calling, Typed
  <2> QED BY <2>1 DEF Calls
<1>4. ASSUME NEW c \in Credentials, NEW u \in BOOLEAN, RefreshFails(p, c, u)
      PROVE  TokenInv'
  <2>1. \A d \in Credentials : /\ auths'[d].epoch = auths[d].epoch
                               /\ auths'[d].token = auths[d].token /\ auths'[d].from = auths[d].from
    <3>1. auths[c] \in Tokens /\ now \in Int
      BY DEF Typed
    <3>2. /\ Failed(auths[c], u).epoch = auths[c].epoch
          /\ Failed(auths[c], u).token = auths[c].token /\ Failed(auths[c], u).from = auths[c].from
      BY <3>1, FailedType, Z3
    <3> QED BY <1>4, <3>2 DEF RefreshFails, Typed
  <2>2. procs' = [procs EXCEPT ![p] = [procs[p] EXCEPT !.at = "done", !.base = NoBase]]
    BY <1>4 DEF RefreshFails, To
  <2>3. UNCHANGED <<historyVars, edits>> /\ Calling(p, c)
    BY <1>4 DEF RefreshFails
  <2> QED BY <1>1, <1>3, <2>1, <2>2, <2>3
<1>5. ASSUME NEW c \in Credentials, RefreshCancelled(p, c)
      PROVE  TokenInv'
  BY <1>1, <1>3, <1>5 DEF RefreshCancelled, To, tellVars
<1> QED BY <1>2, <1>4, <1>5, TokenTaken, TokenExchanged DEF Return

LEMMA TokenStep == Typed /\ TokenInv /\ [Next]_vars => TokenInv'
<1> SUFFICES ASSUME Typed, TokenInv, [Next]_vars PROVE TokenInv'
  OBVIOUS
<1> USE DEF loopVars, tellVars, historyVars
<1>1. ASSUME UNCHANGED <<auths, procs, historyVars, edits>>
      PROVE  TokenInv'
  BY <1>1, TokenQuiet
<1>2. CASE Tick \/ UNCHANGED vars
  BY <1>1, <1>2 DEF Tick, vars
<1>3. ASSUME NEW c \in Credentials, Notify(c) \/ queueRefreshUnschedule(c)
      PROVE  TokenInv'
  BY <1>1, <1>3 DEF Notify, queueRefreshUnschedule
<1>4. CASE Loop
  <2>1. CASE markRefreshPending
    <3>1. \A d \in Credentials : /\ auths'[d].epoch = auths[d].epoch
                                 /\ auths'[d].token = auths[d].token /\ auths'[d].from = auths[d].from
      <4>1. CASE UNCHANGED auths
        BY <4>1
      <4>2. CASE auths' = [auths EXCEPT ![loop.id] = [auths[loop.id] EXCEPT !.hold = loop.time + Backoff]]
        <5>1. ASSUME NEW d \in Credentials
              PROVE  auths[d] \in Tokens /\ auths'[d] \in {auths[d], [auths[d] EXCEPT !.hold = loop.time + Backoff]}
          BY <4>2 DEF Typed
        <5> QED BY <5>1 DEF Tokens
      <4>3. \/ UNCHANGED auths
            \/ auths' = [auths EXCEPT ![loop.id] = [auths[loop.id] EXCEPT !.hold = loop.time + Backoff]]
        BY <2>1 DEF markRefreshPending
      <4> QED BY <4>1, <4>2, <4>3
    <3> QED BY <2>1, <3>1, TokenQuiet DEF markRefreshPending
  <2>2. CASE TimerFires \/ Put \/ SendJob \/ Wake \/ DueDone \/ resetTimer
    BY <1>1, <2>2 DEF TimerFires, Put, SendJob, Wake, DueDone, resetTimer
  <2>3. ASSUME NEW c \in Credentials, HandleDue(c) \/ applyDirty(c)
        PROVE  TokenInv'
    BY <1>1, <2>3 DEF HandleDue, applyDirty
  <2> QED BY <1>4, <2>1, <2>2, <2>3 DEF Loop
<1>5. ASSUME NEW p \in Requests, NEW c \in Credentials, NEW f \in 0..minted[c], Request(p, c, f)
      PROVE  TokenInv'
  <2>1. [ProcIdle EXCEPT !.at = "waiting", !.id = c, !.failed = f].at = "waiting"
    BY DEF ProcIdle
  <2>2. \A q \in Processes : procs'[q].at = "calling" => procs'[q] = procs[q]
    BY <1>5, <2>1 DEF Request, To, Typed, Processes
  <2> QED BY <1>5, <2>2, TokenQuiet DEF Request
<1> QED BY <1>2, <1>3, <1>4, <1>5, TokenLifecycle, TokenCall DEF Next

THEOREM TokenInvariant == Spec => []TokenInv
<1>1. Init => TokenInv
  <2> SUFFICES ASSUME Init PROVE TokenInv
    OBVIOUS
  <2>1. \A c \in Credentials : auths[c].token = 1 /\ auths[c].from = auths[c].epoch
    BY DEF Init, Loaded
  <2>2. /\ \A c \in Credentials : minted[c] = 1
        /\ spent = {} /\ \A p \in Processes : procs[p].at # "calling"
    BY DEF Init, ProcIdle
  <2>3. \A c \in Credentials : edits[c] = NoAuth
    BY DEF Init
  <2> QED BY <2>1, <2>2, <2>3, NoAuthType
      DEF TokenInv, TokenOfThisIncarnation, Holds, Once, Edited, UsedBefore, CallOnce, Calling
<1> QED BY <1>1, TokenStep, RefreshTypes, PTL DEF Spec

\* No refresh token is presented once it was exchanged, whichever workers and
\* requests refresh a credential while it is edited, replaced or removed, but for
\* one that a caller of Update or Register has stored again.
THEOREM RefreshTokensUsedOnce == Spec => []RefreshTokenUsedOnce
<1>1. Typed /\ TokenInv => RefreshTokenUsedOnce
  <2> SUFFICES ASSUME Typed, TokenInv, NEW p \in Processes, procs[p].at = "calling"
               PROVE  Once(procs[p].id, procs[p].base.token)
    BY DEF RefreshTokenUsedOnce, Once
  <2>1. procs[p].id \in Credentials
    BY ProcTypes DEF Typed, Calls
  <2> QED BY <2>1 DEF TokenInv, CallOnce, Calling
<1> QED BY <1>1, RefreshTypes, TokenInvariant, PTL

\* A credential's token is of its own registration.
THEOREM TokensStayInTheirIncarnation == Spec => []TokenOfThisIncarnation
<1>1. TokenInv => TokenOfThisIncarnation
  BY DEF TokenInv
<1> QED BY <1>1, TokenInvariant, PTL

-----------------------------------------------------------------------------
\* Why a credential is never forgotten.  What the loop is about to put on the
\* heap was in time when it read the credential, and whoever has changed the
\* credential since then has told the loop or is about to.  A removal that has
\* still to take the entry off the heap is one of a credential that is gone.
OnTime(c, t) == t # None /\ t <= nextRefreshCheckAt(auths[c], now)
Putting(c) == loop.at \in {"duePut", "dirtyPut"} /\ loop.id = c
PutsInTime(c) ==
  Putting(c) /\ Scheduled(auths[c]) => c \in notifying \cup dirty \/ AtWork(c) \/ OnTime(c, loop.next)
Tracked(c) == Scheduled(auths[c]) => Told(c) \/ InHand(c) \/ AtWork(c) \/ OnTime(c, heap[c])
Gone(c) == c \in unscheduling => ~Present(auths[c])
LoopInv ==
  /\ heap \in [Credentials -> Int] /\ \A c \in Credentials : heap[c] >= None
  /\ 0 <= loop.time /\ loop.time <= now /\ loop.next >= None
  /\ unscheduling \subseteq Credentials
TrackInv == LoopInv /\ \A c \in Credentials : Tracked(c) /\ PutsInTime(c) /\ Gone(c)

\* Why the loop wakes up: it alone empties the dirty set, and while it waits its
\* timer is no later than any entry of the heap.
TimerInv == /\ dirty # {} => wakeCh
            /\ loop.at = "select" => \A c \in On : timer # None /\ timer <= heap[c]

\* A later look gives no earlier time, and none before the look.
LEMMA CheckIsMonotone ==
  ASSUME NEW a \in Tokens, NEW s \in Int, NEW t \in Int, s <= t
  PROVE  /\ nextRefreshCheckAt(a, s) \in Int /\ nextRefreshCheckAt(a, s) >= s
         /\ nextRefreshCheckAt(a, s) <= nextRefreshCheckAt(a, t)
BY DEF nextRefreshCheckAt, Live, Larger, Tokens

\* What the loop computes is in time.
LEMMA CheckedInTime ==
  ASSUME Typed, LoopInv, NEW c \in Credentials
  PROVE  /\ Checked(c) \in Int /\ Checked(c) >= None
         /\ Scheduled(auths[c]) => OnTime(c, Checked(c))
<1>1. auths[c] \in Tokens /\ loop.time \in Int /\ now \in Int
  BY DEF Typed, Turns
<1>2. nextRefreshCheckAt(auths[c], loop.time) >= 0
      /\ nextRefreshCheckAt(auths[c], loop.time) <= nextRefreshCheckAt(auths[c], now)
      /\ nextRefreshCheckAt(auths[c], loop.time) \in Int
  BY <1>1, CheckIsMonotone DEF LoopInv
<1> QED BY <1>2 DEF OnTime, Checked, None

\* The types of the loop's own data, at every step and whatever the environment does.
LEMMA LoopInvStep == Typed /\ LoopInv /\ [Next]_vars => LoopInv'
<1> SUFFICES ASSUME Typed, LoopInv, [Next]_vars PROVE LoopInv'
  OBVIOUS
<1> USE Constants DEF loopVars, tellVars, historyVars
<1>0. loop.time \in Int /\ loop.next \in Int /\ now \in Int
  BY DEF Typed, Turns
<1>1. ASSUME UNCHANGED <<heap, loop>>, unscheduling' \subseteq Credentials, now' >= now, now' \in Int
      PROVE  LoopInv'
  BY <1>0, <1>1 DEF LoopInv
<1>2. CASE Tick \/ UNCHANGED vars
  BY <1>0, <1>1, <1>2 DEF Tick, vars, LoopInv
<1>3. ASSUME NEW c \in Credentials, Lifecycle(c) \/ Notify(c) \/ queueRefreshUnschedule(c)
      PROVE  LoopInv'
  <2>1. CASE Lifecycle(c) \/ Notify(c)
    BY <1>0, <1>1, <2>1
    DEF Lifecycle, Register, GetByID, UpdateFromFile, UpdateEdited, Updated, Remove, MarkResult, Notify, LoopInv
  <2>2. CASE queueRefreshUnschedule(c)
    BY <2>2 DEF queueRefreshUnschedule, LoopInv
  <2> QED BY <1>3, <2>1, <2>2
<1>4. ASSUME NEW p \in Requests, NEW d \in Credentials, NEW f \in 0..minted[d], Request(p, d, f)
      PROVE  LoopInv'
  BY <1>0, <1>1, <1>4 DEF Request, LoopInv
<1>5. ASSUME NEW p \in Processes, TakeJob(p) \/ Begin(p) \/ Return(p) \/ Finish(p)
      PROVE  LoopInv'
  BY <1>0, <1>1, <1>5 DEF TakeJob, Begin, Return, RefreshSucceeds, RefreshFails, RefreshCancelled, Finish, LoopInv
<1>6. CASE Loop
  <2>1. now' = now /\ unscheduling' = unscheduling
    BY <1>6 DEF Loop, TimerFires, markRefreshPending, Put, SendJob, Wake, DueDone, resetTimer, HandleDue, applyDirty
  <2>2. heap' \in [Credentials -> Int] /\ \A c \in Credentials : heap'[c] >= None
    <3>1. CASE TimerFires
      BY <3>1 DEF TimerFires, LoopInv
    <3>2. CASE Put
      BY <1>0, <3>2 DEF Put, upsert, LoopInv
    <3>3. CASE UNCHANGED heap
      BY <3>3 DEF LoopInv
    <3> QED BY <1>6, <3>1, <3>2, <3>3
            DEF Loop, markRefreshPending, SendJob, Wake, DueDone, resetTimer, HandleDue, applyDirty
  <2>3. loop'.time \in {loop.time, now, 0} /\ loop'.next >= None
    <3>1. ASSUME NEW c \in Credentials
          PROVE  Checked(c) >= None
      BY CheckedInTime
    <3>2. CASE TimerFires \/ Wake \/ DueDone \/ resetTimer
      <4>1. LoopSelect.time = 0 /\ LoopSelect.next = None
        BY DEF LoopSelect
      <4>2. CASE TimerFires
        BY <4>1, <4>2 DEF TimerFires, LoopSelect, None
      <4>3. CASE Wake
        BY <4>1, <4>3 DEF Wake, drainDirty, LoopSelect, None
      <4>4. CASE DueDone
        BY <4>1, <4>4 DEF DueDone, drainDirty, LoopSelect, None
      <4>5. CASE resetTimer
        BY <4>1, <4>5 DEF resetTimer, None
      <4> QED BY <3>2, <4>2, <4>3, <4>4, <4>5
    <3>3. CASE markRefreshPending
      BY <1>0, <3>1, <3>3 DEF markRefreshPending, Typed, Turns, LoopInv
    <3>4. CASE Put \/ SendJob
      <4>1. CASE Put
        BY <4>1 DEF Put, Typed, Turns, None
      <4>2. CASE SendJob
        BY <4>2 DEF SendJob, Typed, Turns, LoopInv
      <4> QED BY <3>4, <4>1, <4>2
    <3>5. ASSUME NEW c \in Credentials, HandleDue(c) \/ applyDirty(c)
          PROVE  loop'.time = loop.time /\ loop'.next \in {loop.next, Checked(c)}
      BY <3>5 DEF HandleDue, applyDirty, Typed, Turns
    <3> QED BY <1>6, <3>1, <3>2, <3>3, <3>4, <3>5 DEF Loop, LoopInv
  <2> QED BY <1>0, <2>1, <2>2, <2>3 DEF LoopInv
<1> QED BY <1>2, <1>3, <1>4, <1>5, <1>6 DEF Next

THEOREM LoopInvariant == Spec => []LoopInv
<1>1. Init => LoopInv
  BY DEF Init, LoopSelect, LoopInv, None
<1> QED BY <1>1, LoopInvStep, RefreshTypes, PTL DEF Spec

\* Steps outside the loop that tell it of every credential they change.
TellsOf(c) == \/ c \in notifying'
              \/ c \in dirty'
Unchanging(c) == Scheduled(auths[c])' => /\ Scheduled(auths[c])
                                         /\ auths'[c].hold = auths[c].hold
                                         /\ auths'[c].due = auths[c].due
LEMMA TrackedOutside ==
  ASSUME Typed, TrackInv, Typed', NEW c \in Credentials,
         UNCHANGED loop, now <= now', now' \in Int,
         dirty \subseteq dirty', notifying \subseteq notifying' \cup dirty',
         AtWork(c) => AtWork(c)' \/ c \in dirty',
         TellsOf(c) \/ (Unchanging(c) /\ (Scheduled(auths'[c]) => heap'[c] = heap[c]))
  PROVE  Tracked(c)' /\ PutsInTime(c)'
<1>1. CASE TellsOf(c)
  BY <1>1 DEF TellsOf, Tracked, PutsInTime, Told
<1>2. CASE ~TellsOf(c) /\ Scheduled(auths[c])'
  <2>1. /\ auths[c] \in Tokens /\ auths'[c] \in Tokens /\ now \in Int
        /\ nextRefreshCheckAt(auths'[c], now') = nextRefreshCheckAt(auths[c], now')
    BY <1>2 DEF Typed, Unchanging, nextRefreshCheckAt, Live
  <2>2. /\ nextRefreshCheckAt(auths[c], now) <= nextRefreshCheckAt(auths'[c], now')
        /\ nextRefreshCheckAt(auths[c], now) \in Int /\ nextRefreshCheckAt(auths'[c], now') \in Int
    BY <2>1, CheckIsMonotone
  <2>3. heap[c] \in Int /\ loop.next \in Int
    BY DEF TrackInv, LoopInv, Typed, Turns
  <2>4. OnTime(c, heap[c]) => OnTime(c, heap[c])'
    BY <1>2, <2>2, <2>3 DEF OnTime
  <2>5. OnTime(c, loop.next) => OnTime(c, loop.next)'
    BY <2>2, <2>3 DEF OnTime
  <2> QED BY <1>2, <2>4, <2>5 DEF TrackInv, Tracked, PutsInTime, Putting, Told, InHand, TellsOf, Unchanging
<1> QED BY <1>1, <1>2 DEF Tracked, PutsInTime

\* What each step outside the loop leaves alone.
LEMMA LifecycleTracked ==
  ASSUME Typed, TrackInv, Typed', LoopInv', ~Overlap, ~Recoveries, NEW c \in Credentials,
         Lifecycle(c) \/ Notify(c) \/ queueRefreshUnschedule(c)
  PROVE  TrackInv'
<1> USE DEF loopVars, tellVars, historyVars
<1>1. \A d \in Credentials : Gone(d)'
  <2>1. CASE Lifecycle(c)
    <3>1. ASSUME NEW d \in Credentials, d \in unscheduling'
          PROVE  ~Present(auths'[d])
      <4>1. CASE \E t \in Dues, token \in 1..(minted[c] + 1) : Register(c, token, t)
        BY <3>1, <4>1 DEF Register, Stored, Typed, TrackInv, Gone
      <4>2. CASE \/ UpdateEdited(c)
                 \/ \E t \in Dues, token \in 1..(minted[c] + 1) : UpdateFromFile(c, token, t)
        <5>1. PICK a \in Tokens : Updated(c, a)
          BY <4>2, UpdateShape
        <5> QED BY <3>1, <5>1 DEF Updated, Stored, Typed, TrackInv, Gone
      <4>5. CASE GetByID(c)
        BY <3>1, <4>5 DEF GetByID, Typed, TrackInv, Gone
      <4>3. CASE Remove(c)
        BY <3>1, <4>3, NoAuthType DEF Remove, Typed, TrackInv, Gone
      <4>4. CASE \E ok \in BOOLEAN : MarkResult(c, ok)
        BY <3>1, <4>4 DEF MarkResult, Typed, TrackInv, Gone
      <4> QED BY <2>1, <4>1, <4>2, <4>3, <4>4, <4>5 DEF Lifecycle
    <3> QED BY <3>1 DEF Gone
  <2>2. CASE Notify(c) \/ queueRefreshUnschedule(c)
    BY <2>2 DEF Notify, queueRefreshUnschedule, TrackInv, Gone
  <2> QED BY <2>1, <2>2
<1>2. ASSUME NEW d \in Credentials
      PROVE  Tracked(d)' /\ PutsInTime(d)'
  <2>1. UNCHANGED loop /\ now' = now /\ now \in Int /\ dirty \subseteq dirty'
    BY DEF Lifecycle, Register, GetByID, UpdateFromFile, UpdateEdited, Updated, Remove, MarkResult, Notify,
           queueReschedule, queueRefreshUnschedule, Typed
  <2>2. notifying \subseteq notifying' \cup dirty'
    BY DEF Lifecycle, Register, GetByID, UpdateFromFile, UpdateEdited, Updated, Stored, Remove, MarkResult,
           Notify, queueReschedule, queueRefreshUnschedule
  <2>3. AtWork(d) => AtWork(d)'
    BY DEF AtWork, Lifecycle, Register, GetByID, UpdateFromFile, UpdateEdited, Updated, Remove, MarkResult,
           Notify, queueRefreshUnschedule
  <2>4. TellsOf(d) \/ (Unchanging(d) /\ (Scheduled(auths'[d]) => heap'[d] = heap[d]))
    <3>0. ASSUME NEW a, Stored(c, a), heap' = heap
          PROVE  TellsOf(d) \/ (Unchanging(d) /\ (Scheduled(auths'[d]) => heap'[d] = heap[d]))
      BY <3>0 DEF Stored, TellsOf, Unchanging, Typed
    <3>1. CASE \E t \in Dues, token \in 1..(minted[c] + 1) : Register(c, token, t)
      BY <3>0, <3>1 DEF Register
    <3>6. CASE \/ UpdateEdited(c)
               \/ \E t \in Dues, token \in 1..(minted[c] + 1) : UpdateFromFile(c, token, t)
      <4>1. PICK a \in Tokens : Updated(c, a)
        BY <3>6, UpdateShape
      <4> QED BY <3>0, <4>1 DEF Updated, Unchanging
    <3>7. CASE GetByID(c)
      BY <3>7 DEF GetByID, Unchanging
    <3>2. CASE Remove(c)
      BY <3>2, NoAuthType DEF Remove, Unchanging, Scheduled, Typed
    <3>3. CASE \E ok \in BOOLEAN : MarkResult(c, ok)
      <4>1. auths' = [auths EXCEPT ![c].bad = TRUE] /\ heap' = heap /\ auths[d] \in Tokens
        BY <3>3 DEF MarkResult, Typed
      <4> QED BY <4>1 DEF Typed, Tokens, Unchanging, Scheduled, Present, hasUnauthorizedAuthFailure
    <3>4. CASE Notify(c)
      BY <3>4 DEF Notify, Unchanging, Scheduled
    <3>5. CASE queueRefreshUnschedule(c)
      BY <3>5 DEF queueRefreshUnschedule, TrackInv, LoopInv, Gone, Unchanging, Scheduled
    <3> QED BY <3>1, <3>2, <3>3, <3>4, <3>5, <3>6, <3>7 DEF Lifecycle
  <2> QED BY <2>1, <2>2, <2>3, <2>4, TrackedOutside
<1> QED BY <1>1, <1>2 DEF TrackInv

\* A job is tracked until its worker has told the loop; so is what a request changes.
LEMMA CallTracked ==
  ASSUME Typed, TrackInv, Typed', LoopInv', NEW p \in Processes,
         TakeJob(p) \/ Begin(p) \/ Return(p) \/ Finish(p)
  PROVE  TrackInv'
<1> USE DEF loopVars, tellVars, historyVars, To
<1>1. UNCHANGED <<loop, now, heap, unscheduling>>
  BY DEF TakeJob, Begin, Return, RefreshSucceeds, RefreshFails, RefreshCancelled, Finish
<1>2. ASSUME NEW c \in Credentials
      PROVE  /\ AtWork(c) => AtWork(c)' \/ c \in dirty'
             /\ c \in notifying' \/ auths'[c] = auths[c]
             /\ Present(auths'[c]) => Present(auths[c])
             /\ dirty \subseteq dirty' /\ notifying \subseteq notifying'
  <2>1. CASE TakeJob(p)
    <3>1. AtWork(c) => AtWork(c)'
      <4>1. ASSUME NEW k \in DOMAIN jobs, jobs[k] = c, k # 1
            PROVE  AtWork(c)'
        <5>1. k - 1 \in DOMAIN jobs' /\ jobs'[k - 1] = c
          BY <2>1, <4>1 DEF TakeJob, Typed
        <5> QED BY <5>1 DEF AtWork
      <4>2. CASE Head(jobs) = c
        <5>1. procs'[p].at = "waiting" /\ procs'[p].id = c
          BY <2>1, <4>2 DEF TakeJob, ProcIdle, Typed
        <5> QED BY <2>1, <5>1 DEF AtWork, TakeJob
      <4>3. ASSUME NEW q \in Workers, procs[q].at # "idle", procs[q].id = c
            PROVE  AtWork(c)'
        BY <2>1, <4>3 DEF AtWork, TakeJob
      <4>4. \A k \in DOMAIN jobs : k = 1 => jobs[k] = Head(jobs)
        BY DEF Typed
      <4> QED BY <4>1, <4>2, <4>3, <4>4 DEF AtWork
    <3> QED BY <2>1, <3>1 DEF TakeJob
  <2>2. CASE Begin(p)
    <3>1. procs[p] \in Calls
      BY <2>2, ProcTypes DEF Begin, Typed
    <3>2. procs'[p].at # "idle" /\ procs'[p].id = procs[p].id
      <4>1. ASSUME NEW n, procs' = [procs EXCEPT ![p] = n]
            PROVE  procs'[p] = n
        BY <4>1 DEF Typed
      <4>2. \/ procs' = [procs EXCEPT ![p] = [procs[p] EXCEPT !.at = "done", !.failed = 0]]
            \/ procs' = [procs EXCEPT ![p] = [procs[p] EXCEPT !.at = "calling", !.failed = 0,
                                                             !.base = Base(auths[procs[p].id])]]
        BY <2>2 DEF Begin
      <4> QED BY <3>1, <4>1, <4>2 DEF Calls
    <3>3. \A q \in Processes \ {p} : procs'[q] = procs[q]
      BY <2>2 DEF Begin, Typed
    <3>4. UNCHANGED <<auths, jobs, dirty, notifying>>
      BY <2>2 DEF Begin
    <3>5. AtWork(c) => AtWork(c)'
      BY <3>2, <3>3, <3>4 DEF AtWork, Processes
    <3> QED BY <3>4, <3>5
  <2>3. CASE Return(p)
    <3>1. procs[p] \in Calls /\ procs' = [procs EXCEPT ![p] = [procs[p] EXCEPT !.at = "done", !.base = NoBase]]
      BY <2>3, ProcTypes DEF Return, RefreshSucceeds, RefreshFails, RefreshCancelled, Calling, Typed
    <3>2. procs'[p].at = "done" /\ procs'[p].id = procs[p].id
      BY <3>1 DEF Typed, Calls
    <3>3. AtWork(c) => AtWork(c)'
      BY <2>3, <3>1, <3>2 DEF AtWork, Return, RefreshSucceeds, RefreshFails, RefreshCancelled
    <3>4. \A d \in Credentials : d \in notifying' \/ auths'[d] = auths[d]
      BY <2>3, ZenonT(30) DEF Return, RefreshSucceeds, RefreshFails, RefreshCancelled, Typed
    <3>5. \A d \in Credentials : Present(auths'[d]) => Present(auths[d])
      BY <2>3, ZenonT(30) DEF Return, RefreshSucceeds, RefreshFails, RefreshCancelled, Typed, SameIncarnation
    <3> QED BY <2>3, <3>3, <3>4, <3>5 DEF Return, RefreshSucceeds, RefreshFails, RefreshCancelled
  <2>4. CASE Finish(p)
    BY <2>4, ProcTypes DEF Finish, AtWork, queueReschedule, Typed
  <2> QED BY <2>1, <2>2, <2>3, <2>4
<1>3. ASSUME NEW c \in Credentials
      PROVE  Tracked(c)' /\ PutsInTime(c)' /\ Gone(c)'
  <2>1. TellsOf(c) \/ (Unchanging(c) /\ (Scheduled(auths'[c]) => heap'[c] = heap[c]))
    BY <1>1, <1>2 DEF TellsOf, Unchanging, Scheduled
  <2>2. now \in Int
    BY DEF Typed
  <2>3. Tracked(c)' /\ PutsInTime(c)'
    BY <1>1, <1>2, <2>1, <2>2, TrackedOutside
  <2>4. Gone(c)'
    BY <1>1, <1>2 DEF Gone, TrackInv
  <2> QED BY <2>3, <2>4
<1> QED BY <1>1, <1>3 DEF TrackInv

\* The loop, for the credential it has in hand and for the others.
LEMMA LoopTracked == ASSUME Typed, TrackInv, Typed', LoopInv', Loop PROVE TrackInv'
<1> USE Constants DEF historyVars, tellVars
<1>0. /\ UNCHANGED <<now, procs, notifying, unscheduling>> /\ now \in Int /\ loop.time \in Int
      /\ \A c \in Credentials : Present(auths'[c]) => Present(auths[c])
  <2>1. CASE markRefreshPending
    <3>1. \A c \in Credentials : auths'[c].epoch = auths[c].epoch
      <4>1. CASE UNCHANGED auths
        BY <4>1
      <4>2. CASE loop.id \in Credentials /\ auths' = [auths EXCEPT ![loop.id].hold = loop.time + Backoff]
        BY <4>2, ZenonT(30) DEF Typed, Tokens
      <4> QED BY <2>1, <4>1, <4>2 DEF markRefreshPending, Typed
    <3> QED BY <2>1, <3>1 DEF markRefreshPending, Present, Typed, Turns
  <2> QED BY <2>1 DEF Loop, TimerFires, Put, SendJob, Wake, DueDone, resetTimer, HandleDue, applyDirty, Typed, Turns
<1>1. \A c \in Credentials : Gone(c)'
  BY <1>0 DEF TrackInv, Gone
<1>2. ASSUME UNCHANGED auths, jobs' = jobs, NEW c \in Credentials
      PROVE  /\ Scheduled(auths'[c]) = Scheduled(auths[c]) /\ AtWork(c)' = AtWork(c)
             /\ \A t : OnTime(c, t)' = OnTime(c, t)
  BY <1>0, <1>2 DEF AtWork, OnTime
<1>3. CASE TimerFires
  <2>1. /\ loop'.at = "due" /\ loop'.list = popDue(now) /\ loop'.time = now /\ loop'.next = None /\ UNCHANGED <<auths, jobs, dirty>>
        /\ \A c \in Credentials : heap'[c] = heap[c] \/ c \in loop'.list
        /\ heap' \in [Credentials -> Int] /\ \A c \in Credentials : heap'[c] >= None
    BY <1>3 DEF TimerFires, LoopSelect, TrackInv, LoopInv
  <2>2. ASSUME NEW c \in Credentials
        PROVE  Tracked(c)' /\ PutsInTime(c)'
    BY <1>0, <1>2, <1>3, <2>1 DEF TrackInv, Tracked, PutsInTime, Putting, Told, InHand, TimerFires
  <2> QED BY <1>1, <2>2 DEF TrackInv
<1>4. CASE Wake \/ DueDone
  <2>1. /\ loop'.at = "dirty" /\ loop'.list = dirty /\ (loop'.time = now \/ loop'.time = loop.time) /\ loop'.next = None
        /\ UNCHANGED <<auths, jobs, heap>> /\ loop.at \in {"select", "due"} /\ (loop.at = "due" => loop.list = {})
    BY <1>4 DEF Wake, DueDone, drainDirty, LoopSelect
  <2>2. ASSUME NEW c \in Credentials
        PROVE  Tracked(c)' /\ PutsInTime(c)'
    BY <1>0, <1>2, <2>1 DEF TrackInv, Tracked, PutsInTime, Putting, Told, InHand
  <2> QED BY <1>0, <1>1, <2>1, <2>2 DEF TrackInv
<1>5. CASE resetTimer
  <2>1. /\ loop'.at = "select" /\ loop'.time = 0 /\ loop'.next = None
        /\ UNCHANGED <<auths, jobs, heap, dirty>> /\ loop.at = "dirty" /\ loop.list = {}
    BY <1>5 DEF resetTimer, LoopSelect
  <2>2. ASSUME NEW c \in Credentials
        PROVE  Tracked(c)' /\ PutsInTime(c)'
    BY <1>0, <1>2, <2>1 DEF TrackInv, Tracked, PutsInTime, Putting, Told, InHand
  <2> QED BY <1>0, <1>1, <2>1, <2>2 DEF TrackInv
<1>6. ASSUME NEW d \in Credentials, HandleDue(d) \/ applyDirty(d)
      PROVE  TrackInv'
  <2>1. /\ UNCHANGED <<auths, jobs, heap, dirty>> /\ d \in loop.list /\ loop.at \in {"due", "dirty"}
        /\ loop'.list = loop.list \ {d} /\ loop'.id = d /\ loop'.time = loop.time
        /\ \/ loop.at = "due" /\ loop'.at = "mark" /\ loop'.next = loop.next
           \/ loop'.at = (IF loop.at = "due" THEN "duePut" ELSE "dirtyPut") /\ loop'.next = Checked(d)
    BY <1>6, ZenonT(30) DEF HandleDue, applyDirty, Typed, Turns
  <2>2. Checked(d) >= None /\ (Scheduled(auths[d]) => OnTime(d, Checked(d)))
    BY CheckedInTime DEF TrackInv
  <2>3. ASSUME NEW c \in Credentials
        PROVE  Tracked(c)' /\ PutsInTime(c)'
    BY <1>0, <1>2, <2>1, <2>2 DEF TrackInv, Tracked, PutsInTime, Putting, Told, InHand
  <2> QED BY <1>0, <1>1, <2>1, <2>2, <2>3 DEF TrackInv
<1>7. CASE markRefreshPending
  <2> DEFINE d == loop.id
  <2>0. d \in Credentials
    BY <1>7 DEF markRefreshPending, Typed
  <2>1. CASE MayMark(d)
    <3>1. /\ UNCHANGED <<jobs, heap>> /\ d \in dirty' /\ dirty \subseteq dirty'
          /\ loop.at = "mark" /\ loop'.at = "send" /\ loop'.list = loop.list /\ loop'.id = d /\ loop'.time = loop.time /\ loop'.next = loop.next
          /\ \A c \in Credentials \ {d} : auths'[c] = auths[c]
      BY <1>7, <2>1 DEF markRefreshPending, queueReschedule, Typed, Turns
    <3>2. ASSUME NEW c \in Credentials
          PROVE  Tracked(c)' /\ PutsInTime(c)'
      <4>1. AtWork(c)' = AtWork(c)
        BY <1>0, <3>1 DEF AtWork
      <4>2. CASE c = d
        BY <3>1, <4>2 DEF Tracked, PutsInTime, Putting, Told
      <4>3. CASE c # d
        <5>1. OnTime(c, heap[c])' = OnTime(c, heap[c])
          BY <1>0, <3>1, <4>3 DEF OnTime
        <5> QED BY <1>0, <3>1, <4>1, <4>3, <5>1 DEF TrackInv, Tracked, PutsInTime, Putting, Told, InHand
      <4> QED BY <4>2, <4>3
    <3> QED BY <1>0, <1>1, <3>1, <3>2 DEF TrackInv
  <2>2. CASE ~MayMark(d)
    <3>1. /\ UNCHANGED <<auths, jobs, heap, dirty>>
          /\ loop.at = "mark" /\ loop'.at = "duePut" /\ loop'.list = loop.list /\ loop'.id = d /\ loop'.time = loop.time
          /\ loop'.next = Checked(d)
      BY <1>7, <2>2 DEF markRefreshPending, Typed, Turns
    <3>2. Checked(d) >= None /\ (Scheduled(auths[d]) => OnTime(d, Checked(d)))
      BY <2>0, CheckedInTime DEF TrackInv
    <3>3. ASSUME NEW c \in Credentials
          PROVE  Tracked(c)' /\ PutsInTime(c)'
      BY <1>0, <1>2, <3>1, <3>2 DEF TrackInv, Tracked, PutsInTime, Putting, Told, InHand
    <3> QED BY <1>0, <1>1, <3>1, <3>2, <3>3 DEF TrackInv
  <2> QED BY <2>1, <2>2
<1>8. CASE Put
  <2>1. /\ UNCHANGED <<auths, jobs, dirty>> /\ loop'.list = loop.list /\ loop'.time = loop.time /\ loop'.next = None
        /\ \/ loop.at = "duePut" /\ loop'.at = "due"
           \/ loop.at = "dirtyPut" /\ loop'.at = "dirty"
        /\ heap' = [heap EXCEPT ![loop.id] = loop.next]
    BY <1>8 DEF Put, upsert, Typed, Turns
  <2>2. /\ loop.next \in Int /\ heap' \in [Credentials -> Int]
        /\ \A c \in Credentials : heap'[c] = IF c = loop.id THEN loop.next ELSE heap[c]
    BY <2>1 DEF TrackInv, LoopInv, Typed, Turns
  <2>3. ASSUME NEW c \in Credentials
        PROVE  Tracked(c)' /\ PutsInTime(c)'
    BY <1>0, <1>2, <2>1, <2>2 DEF TrackInv, Tracked, PutsInTime, Putting, Told, InHand
  <2> QED BY <1>0, <1>1, <2>1, <2>2, <2>3 DEF TrackInv
<1>9. CASE SendJob
  <2>1. /\ UNCHANGED <<auths, heap, dirty>> /\ loop'.list = loop.list /\ loop'.time = loop.time /\ loop'.next = loop.next
        /\ loop.at = "send" /\ loop'.at = "due" /\ jobs' = Append(jobs, loop.id)
    BY <1>9 DEF SendJob, Typed, Turns
  <2>2. ASSUME NEW c \in Credentials
        PROVE  Tracked(c)' /\ PutsInTime(c)'
    <3>1. AtWork(c) \/ c = loop.id => AtWork(c)'
      <4>1. ASSUME NEW k \in DOMAIN jobs, jobs[k] = c
            PROVE  AtWork(c)'
        <5>1. jobs \in Seq(Credentials) /\ loop.id \in Credentials
          BY <2>1 DEF Typed
        <5>2. k \in DOMAIN jobs' /\ jobs'[k] = c
          BY <2>1, <4>1, <5>1
        <5> QED BY <5>2 DEF AtWork
      <4>2. CASE c = loop.id
        <5>1. Len(jobs) + 1 \in DOMAIN jobs' /\ jobs'[Len(jobs) + 1] = c
          BY <2>1, <4>2 DEF Typed
        <5> QED BY <5>1 DEF AtWork
      <4> QED BY <1>0, <4>1, <4>2 DEF AtWork
    <3>2. OnTime(c, heap[c])' = OnTime(c, heap[c])
      BY <1>0, <2>1 DEF OnTime
    <3> QED BY <1>0, <2>1, <3>1, <3>2 DEF TrackInv, Tracked, PutsInTime, Putting, Told, InHand
  <2> QED BY <1>0, <1>1, <2>1, <2>2 DEF TrackInv
<1> QED BY <1>3, <1>4, <1>5, <1>6, <1>7, <1>8, <1>9 DEF Loop

\* Every step keeps every credential tracked.
LEMMA TrackStep ==
  ASSUME ~Overlap, ~Recoveries
  PROVE  Typed /\ TrackInv /\ [Next]_vars => TrackInv'
<1> SUFFICES ASSUME Typed, TrackInv, [Next]_vars PROVE TrackInv'
  OBVIOUS
<1>1. Typed' /\ LoopInv'
  BY TypedStep, LoopInvStep DEF TrackInv
<1>2. CASE Tick \/ UNCHANGED vars
  <2>1. /\ UNCHANGED <<auths, heap, dirty, loop, jobs, procs, notifying, unscheduling>>
        /\ now <= now' /\ now' \in Int /\ now \in Int /\ loop.time \in Int
    BY <1>2 DEF Tick, vars, loopVars, tellVars, Typed, Turns
  <2>2. ASSUME NEW c \in Credentials
        PROVE  Tracked(c)' /\ PutsInTime(c)' /\ Gone(c)'
    <3>1. (AtWork(c) => AtWork(c)') /\ Unchanging(c)
      BY <2>1 DEF AtWork, Unchanging
    <3>2. Tracked(c)' /\ PutsInTime(c)'
      BY <1>1, <2>1, <3>1, TrackedOutside
    <3> QED BY <2>1, <3>2 DEF TrackInv, Gone
  <2> QED BY <1>1, <2>2 DEF TrackInv
<1>3. ASSUME NEW p \in Requests, NEW d \in Credentials, NEW f \in 0..minted[d], Request(p, d, f)
      PROVE  TrackInv'
  <2>1. UNCHANGED <<auths, heap, dirty, loop, jobs, now, notifying, unscheduling>> /\ now \in Int
    BY <1>3 DEF Request, loopVars, tellVars, Typed
  <2>2. \A q \in Workers : procs'[q] = procs[q]
    BY <1>3, ProcessAssumption DEF Request, To, Typed, Processes
  <2>3. ASSUME NEW c \in Credentials
        PROVE  Tracked(c)' /\ PutsInTime(c)' /\ Gone(c)'
    <3>1. (AtWork(c) => AtWork(c)') /\ Unchanging(c)
      BY <2>1, <2>2 DEF AtWork, Unchanging
    <3>2. Tracked(c)' /\ PutsInTime(c)'
      BY <1>1, <2>1, <3>1, TrackedOutside
    <3> QED BY <2>1, <3>2 DEF TrackInv, Gone
  <2> QED BY <1>1, <2>3 DEF TrackInv
<1> QED BY <1>1, <1>2, <1>3, LifecycleTracked, CallTracked, LoopTracked DEF Next

THEOREM TrackInvariant ==
  ASSUME ~Overlap, ~Recoveries
  PROVE  Spec => []TrackInv
<1>1. Init => TrackInv
  <2> SUFFICES ASSUME Init PROVE TrackInv
    OBVIOUS
  <2>1. PICK due \in [Credentials -> {1, 2}] : auths = [c \in Credentials |-> Loaded(c, due[c])] /\ heap = due
    BY DEF Init
  <2>2. ASSUME NEW c \in Credentials
        PROVE  heap[c] \in {1, 2} /\ auths[c].due = heap[c] /\ auths[c].hold = 0
    BY <2>1 DEF Loaded
  <2>3. ASSUME NEW c \in Credentials
        PROVE  OnTime(c, heap[c])
    BY <2>2 DEF Init, OnTime, nextRefreshCheckAt, Live, Larger, None
  <2>4. loop.at = "select" /\ loop.time = 0 /\ loop.next = None /\ now = 1 /\ unscheduling = {}
    BY DEF Init, LoopSelect
  <2> QED BY <2>1, <2>2, <2>3, <2>4 DEF TrackInv, LoopInv, Tracked, PutsInTime, Putting, Gone, None
<1> QED BY <1>1, TrackStep, RefreshTypes, PTL DEF Spec

\* No credential that may be refreshed is forgotten, however many credentials the
\* loop handles in one turn, and however a full job channel holds it up meanwhile.
THEOREM CredentialsNeverForgotten ==
  ASSUME ~Overlap, ~Recoveries
  PROVE  Spec => []NeverForgotten
<1>1. TrackInv => NeverForgotten
  BY DEF TrackInv, Tracked, OnTime, NeverForgotten
<1> QED BY <1>1, TrackInvariant, PTL

-----------------------------------------------------------------------------
\* A set of numbers that is not empty has a least one, and Min is it.
LEMMA LeastNumber ==
  ASSUME NEW S \in SUBSET Nat, S # {}
  PROVE  Min(S) \in S /\ \A n \in S : Min(S) <= n
<1> DEFINE less == {p \in Nat \X Nat : p[1] < p[2]}
<1>1. IsWellFoundedOn(less, Nat)
  BY NatLessThanWellFounded, Zenon DEF OpToRel
<1>2. PICK m \in S : \A n \in S : ~(<<n, m>> \in less)
  <2> HIDE DEF less
  <2> QED BY <1>1, WFMin, Zenon
<1>3. \A n \in S : <<n, m>> \notin less /\ n \in Nat /\ m \in Nat
  BY <1>2
<1>4. \A n \in S : ~(n < m)
  BY <1>3
<1>5. \A n \in S : m <= n
  BY <1>3, <1>4
<1> QED BY <1>5 DEF Min

LEMMA TimerStep == Typed /\ LoopInv /\ TimerInv /\ [Next]_vars => TimerInv'
<1> SUFFICES ASSUME Typed, LoopInv, TimerInv, [Next]_vars PROVE TimerInv'
  OBVIOUS
<1> USE DEF loopVars, tellVars, historyVars
<1>1. ASSUME UNCHANGED <<timer, loop>>, \A c \in Credentials : heap'[c] \in {heap[c], None},
             dirty' # {} => wakeCh'
      PROVE  TimerInv'
  BY <1>1 DEF TimerInv, On
<1>2. CASE Tick \/ UNCHANGED vars
  BY <1>1, <1>2 DEF Tick, vars, TimerInv
<1>3. ASSUME NEW c \in Credentials, Lifecycle(c) \/ Notify(c) \/ queueRefreshUnschedule(c)
      PROVE  TimerInv'
  <2>1. UNCHANGED <<timer, loop>> /\ (dirty' # {} => wakeCh')
    BY <1>3 DEF Lifecycle, Register, GetByID, UpdateFromFile, UpdateEdited, Updated, Remove, MarkResult, Notify,
                queueReschedule, queueRefreshUnschedule, TimerInv
  <2>2. heap' = heap \/ heap' = [heap EXCEPT ![c] = None]
    BY <1>3 DEF Lifecycle, Register, GetByID, UpdateFromFile, UpdateEdited, Updated, Remove, MarkResult, Notify,
                queueRefreshUnschedule
  <2> QED BY <1>1, <2>1, <2>2 DEF LoopInv
<1>4. ASSUME NEW p \in Requests, NEW d \in Credentials, NEW f \in 0..minted[d], Request(p, d, f)
      PROVE  TimerInv'
  BY <1>1, <1>4 DEF Request, TimerInv
<1>5. ASSUME NEW p \in Processes, TakeJob(p) \/ Begin(p) \/ Return(p) \/ Finish(p)
      PROVE  TimerInv'
  BY <1>1, <1>5 DEF TakeJob, Begin, Return, RefreshSucceeds, RefreshFails, RefreshCancelled, Finish, queueReschedule, TimerInv
<1>6. CASE Loop
  <2>1. CASE resetTimer
    <3>1. loop'.at = "select" /\ timer' = (IF On = {} THEN None ELSE Min({heap[c] : c \in On})) /\ UNCHANGED <<heap, dirty, wakeCh>>
      BY <2>1 DEF resetTimer, LoopSelect
    <3>2. \A c \in On : heap[c] \in Nat
      BY DEF On, None, LoopInv
    <3>3. ASSUME On # {}
          PROVE  Min({heap[c] : c \in On}) \in Nat /\ \A k \in On : Min({heap[c] : c \in On}) <= heap[k]
      <4>1. {heap[c] : c \in On} \in SUBSET Nat /\ {heap[c] : c \in On} # {}
        BY <3>2, <3>3
      <4>2. /\ Min({heap[c] : c \in On}) \in {heap[c] : c \in On}
            /\ \A n \in {heap[c] : c \in On} : Min({heap[c] : c \in On}) <= n
        BY <4>1, LeastNumber
      <4> QED BY <3>2, <4>2
    <3>4. UNCHANGED On
      BY <3>1 DEF On
    <3> QED BY <3>1, <3>3, <3>4 DEF TimerInv, None
  <2>2. CASE ~resetTimer
    <3>1. loop'.at # "select"
      BY <1>6, <2>2 DEF Loop, TimerFires, markRefreshPending, Put, SendJob, Wake, DueDone, drainDirty, HandleDue, applyDirty,
                     LoopSelect, Typed, Turns
    <3>2. dirty' # {} => wakeCh'
      BY <1>6, <2>2 DEF Loop, TimerFires, markRefreshPending, queueReschedule, Put, SendJob, Wake, DueDone, drainDirty,
                     HandleDue, applyDirty, TimerInv
    <3> QED BY <3>1, <3>2 DEF TimerInv
  <2> QED BY <2>1, <2>2
<1> QED BY <1>2, <1>3, <1>4, <1>5, <1>6 DEF Next

\* The loop never sleeps past what is due, nor while it has been told something.
THEOREM LoopNeverAsleep == Spec => []NeverAsleep
<1>1. Init => TimerInv
  <2> SUFFICES ASSUME Init PROVE TimerInv
    OBVIOUS
  <2>1. PICK due \in [Credentials -> {1, 2}] : heap = due /\ timer = Min({due[c] : c \in Credentials})
    BY DEF Init
  <2>2. ASSUME NEW c \in Credentials
        PROVE  timer # None /\ timer <= heap[c]
    <3> DEFINE S == {heap[d] : d \in Credentials}
    <3>1. \A d \in Credentials : heap[d] \in Nat
      BY <2>1
    <3>2. S \in SUBSET Nat /\ S # {}
      BY <3>1
    <3>3. timer = Min(S) /\ heap[c] \in S
      BY <2>1
    <3> HIDE DEF S
    <3>4. timer \in S /\ timer <= heap[c]
      BY <3>2, <3>3, LeastNumber
    <3>5. timer \in Nat
      BY <3>2, <3>4
    <3> QED BY <3>4, <3>5 DEF None
  <2> QED BY <2>2 DEF Init, TimerInv, On
<1>2. Typed /\ LoopInv /\ TimerInv => NeverAsleep
  <2> SUFFICES ASSUME Typed, LoopInv, TimerInv, loop.at = "select", On # {}
               PROVE  timer # None /\ timer <= Min({heap[c] : c \in On})
    BY DEF NeverAsleep, TimerInv
  <2>1. \A c \in On : heap[c] \in Nat
    BY DEF On, None, LoopInv
  <2>2. {heap[c] : c \in On} \in SUBSET Nat /\ {heap[c] : c \in On} # {}
    BY <2>1
  <2>3. Min({heap[c] : c \in On}) \in {heap[c] : c \in On}
    BY <2>2, LeastNumber
  <2> QED BY <2>3 DEF TimerInv
<1> QED BY <1>1, <1>2, TimerStep, LoopInvariant, RefreshTypes, PTL DEF Spec
=============================================================================
