---------------------------- MODULE AutoRefresh -----------------------------
(***************************************************************************)
(* Renewal of access tokens: the auto-refresh loop with its heap, dirty    *)
(* set, timer, job channel and workers, and the requests that refresh a    *)
(* credential themselves after an answer of 401.  Both end in              *)
(* refreshAuthForRequest, which holds one lock per credential.  Manager.mu *)
(* covers one read or write of Manager.auths; the loop is told of a change *)
(* after that lock was released.                                           *)
(***************************************************************************)
EXTENDS Integers, Sequences, FiniteSetsExt

CONSTANTS Credentials,  \* ids of credentials with a refresh token
          Workers,      \* the loop's workers
          Requests,     \* requests and forced refreshes, at most one each at a time
          Capacity,     \* of the job channel
          Lead,         \* how long before its expiry a token is due
          Backoff,      \* pending, failure and ineffective backoff alike
          MaxTime,      \* bound on the clock
          MaxEvents,    \* bound on registrations, updates, removals, requests, reports
          Recoveries,   \* whether a request succeeds with a credential marked 401
          Overlap       \* whether a removal overlaps with a new registration

ASSUME ProcessAssumption == Workers \cap Requests = {}
ASSUME BoundAssumption == /\ {Capacity, Lead, Backoff} \subseteq Nat \ {0}
                          /\ {MaxTime, MaxEvents} \subseteq Nat
                          /\ {Recoveries, Overlap} \subseteq BOOLEAN

VARIABLES now,
          auths, authEpochs,  \* Manager.auths, Manager.authEpochs
          heap,               \* refreshMinHeap with its index: the time of each
          dirty, wakeCh, timer, loop, jobs,
          procs,              \* where workers and requests are
          notifying,          \* queueReschedule not called yet after a change
          unscheduling,       \* queueRefreshUnschedule not called yet
          edits,              \* what a caller of Update has read of a credential
          minted, spent,      \* history: tokens issued, refresh tokens exchanged
          restored,           \* ... and exchanged ones that were stored again
          events

loopVars == <<heap, dirty, wakeCh, timer, loop, jobs>>
tellVars == <<notifying, unscheduling, edits>>
historyVars == <<minted, spent, restored>>
vars == <<now, auths, authEpochs, loopVars, procs, tellVars, historyVars, events>>

None == -1
Processes == Workers \cup Requests
Times == 0..(MaxTime + Backoff + Lead + 1)
Larger(m, n) == IF m < n THEN n ELSE m
Smaller(m, n) == IF m < n THEN m ELSE n

\* A credential: its registration epoch, its token with the epoch it was issued
\* for, the time from which it should be refreshed, NextRefreshAfter (0 is the
\* zero time) and whether an answer of 401 has made it unavailable.
NoAuth == [epoch |-> 0, token |-> 0, from |-> 0, due |-> 0, hold |-> 0, bad |-> FALSE]
Present(a) == a.epoch > 0
Expiry(a) == a.due + Lead

Live(a, t) == a.hold > t
hasUnauthorizedAuthFailure(a) == a.bad /\ a.hold = 0
Scheduled(a) == Present(a) /\ ~hasUnauthorizedAuthFailure(a)
nextRefreshCheckAt(a, t) == IF Live(a, t) THEN a.hold ELSE Larger(t, a.due)
shouldRefresh(a, t) == Scheduled(a) /\ ~Live(a, t) /\ a.due <= t

NoBase == [epoch |-> 0, token |-> 0, held |-> FALSE]
Base(a) == [epoch |-> a.epoch, token |-> a.token, held |-> a.hold # 0]
ProcIdle == [at |-> "idle", id |-> None, failed |-> 0, base |-> NoBase]
LoopSelect == [at |-> "select", list |-> {}, id |-> None, time |-> 0, next |-> None]

Loaded(c, d) == [epoch |-> 1, token |-> 1, from |-> 1, due |-> d, hold |-> 0, bad |-> FALSE]

\* The credentials have been loaded; StartAutoRefresh has run rebuild and the loop
\* its first resetTimer.
Init ==
  /\ now = 1
  /\ \E due \in [Credentials -> {1, 2}] :
       /\ auths = [c \in Credentials |-> Loaded(c, due[c])]
       /\ heap = due
       /\ timer = Min({due[c] : c \in Credentials})
  /\ authEpochs = [c \in Credentials |-> 1]
  /\ dirty = {} /\ wakeCh = FALSE
  /\ loop = LoopSelect /\ jobs = <<>>
  /\ procs = [p \in Processes |-> ProcIdle]
  /\ notifying = {} /\ unscheduling = {} /\ edits = [c \in Credentials |-> NoAuth]
  /\ minted = [c \in Credentials |-> 1] /\ spent = {} /\ restored = {} /\ events = 0

Counting == events < MaxEvents /\ events' = events + 1

Tick == /\ now < MaxTime /\ now' = now + 1
        /\ UNCHANGED <<auths, authEpochs, loopVars, procs, tellVars, historyVars, events>>

-----------------------------------------------------------------------------
\* Credentials come, change and go.  Each of them tells the loop afterwards.

Calling(p, c) == procs[p].at = "calling" /\ procs[p].id = c

\* Credential a is stored with a refresh token that has been exchanged, or that a
\* refresh of an earlier registration is exchanging.
Restored(c, a) ==
  {<<c, a.token>>} \cap
    (spent \cup {<<c, procs[p].base.token>> :
                  p \in {q \in Processes : Calling(q, c) /\ procs[q].base.epoch # a.epoch}})

\* a becomes the credential c, whatever token it brings.
Stored(c, a) ==
  /\ auths' = [auths EXCEPT ![c] = a]
  /\ minted' = [minted EXCEPT ![c] = Larger(@, a.token)]
  /\ restored' = restored \cup Restored(c, a)
  /\ notifying' = notifying \cup {c}

\* The credential as its file has it.
FromFile(epoch, token, d, hold) ==
  [epoch |-> epoch, token |-> token, from |-> epoch, due |-> d, hold |-> hold, bad |-> FALSE]

Register(c, token, d) ==
  /\ Counting /\ ~Present(auths[c])
  /\ Overlap \/ c \notin unscheduling
  /\ authEpochs' = [authEpochs EXCEPT ![c] = @ + 1]
  /\ Stored(c, FromFile(authEpochs[c] + 1, token, d, 0))
  /\ UNCHANGED <<now, loopVars, procs, unscheduling, edits, spent>>

\* Every caller of Update reads the credential before.
GetByID(c) ==
  /\ Counting /\ Present(auths[c]) /\ ~Present(edits[c])
  /\ edits' = [edits EXCEPT ![c] = auths[c]]
  /\ UNCHANGED <<now, auths, authEpochs, loopVars, procs, notifying, unscheduling, historyVars>>

\* Update: nothing is stored of a credential that is gone, or for an older
\* registration.
Updated(c, a) ==
  /\ edits' = [edits EXCEPT ![c] = NoAuth]
  /\ IF Present(auths[c]) /\ a.epoch = auths[c].epoch THEN Stored(c, a)
     ELSE UNCHANGED <<auths, notifying, minted, restored>>
  /\ UNCHANGED <<now, authEpochs, loopVars, procs, unscheduling, spent, events>>

\* The file was replaced: what it holds, but the NextRefreshAfter that was read.
UpdateFromFile(c, token, d) ==
  /\ Present(edits[c])
  /\ Updated(c, FromFile(auths[c].epoch, token, d, edits[c].hold))

\* A field was edited: the clone that was read comes back, with its token. A 401
\* is forgotten only if that changes the token.
UpdateEdited(c) ==
  /\ Present(edits[c])
  /\ Updated(c, [edits[c] EXCEPT !.bad = @ /\ auths[c].token = edits[c].token])

Remove(c) ==
  /\ Counting /\ Present(auths[c])
  /\ auths' = [auths EXCEPT ![c] = NoAuth]
  /\ authEpochs' = [authEpochs EXCEPT ![c] = @ + 1]
  /\ unscheduling' = unscheduling \cup {c}
  /\ UNCHANGED <<now, loopVars, procs, notifying, edits, historyVars>>

\* MarkResult says nothing to the loop.
MarkResult(c, ok) ==
  /\ Counting /\ Present(auths[c])
  /\ ok = auths[c].bad /\ (ok => Recoveries)
  /\ auths' = [auths EXCEPT ![c].bad = ~ok]
  /\ UNCHANGED <<now, authEpochs, loopVars, procs, tellVars, historyVars>>

WakeIfListening(c) ==               \* a seeded fault: the channel has no buffer
  dirty' = dirty \cup {c} /\ wakeCh' = (wakeCh \/ loop.at = "select")
queueReschedule(c) == dirty' = dirty \cup {c} /\ wakeCh' = TRUE

Notify(c) ==
  /\ c \in notifying /\ notifying' = notifying \ {c}
  /\ queueReschedule(c)
  /\ UNCHANGED <<now, auths, authEpochs, heap, timer, loop, jobs, procs, unscheduling, edits,
                 historyVars, events>>

queueRefreshUnschedule(c) ==
  /\ c \in unscheduling /\ unscheduling' = unscheduling \ {c}
  /\ heap' = [heap EXCEPT ![c] = None]
  /\ UNCHANGED <<now, auths, authEpochs, dirty, wakeCh, timer, loop, jobs, procs, notifying, edits,
                 historyVars, events>>

-----------------------------------------------------------------------------
\* The loop.  It alone puts entries on the heap, with a time it computes from
\* the credential as it reads it and the time at which it woke up.  The credential
\* may change between that read and the write to the heap.

\* What the loop will write for c, None to remove its entry.
Checked(c) == IF Scheduled(auths[c]) THEN nextRefreshCheckAt(auths[c], loop.time) ELSE None

upsertKeeps(c, t) == [heap EXCEPT ![c] = IF @ = None THEN t ELSE @]  \* a seeded fault: no heap.Fix
upsert(c, t) == [heap EXCEPT ![c] = t]

On == {c \in Credentials : heap[c] # None}
popDue(t) == {c \in On : heap[c] <= t}

TimerFires ==
  /\ loop.at = "select" /\ timer # None /\ timer <= now
  /\ heap' = [c \in Credentials |-> IF c \in popDue(now) THEN None ELSE heap[c]]
  /\ loop' = [LoopSelect EXCEPT !.at = "due", !.list = popDue(now), !.time = now]
  /\ timer' = None
  /\ UNCHANGED <<now, auths, authEpochs, dirty, wakeCh, jobs, procs, tellVars, historyVars, events>>

\* handleDueAuth: a credential that is gone or not due goes back or is dropped.
HandleDue(c) ==
  /\ loop.at = "due" /\ c \in loop.list
  /\ loop' = IF shouldRefresh(auths[c], loop.time)
               THEN [loop EXCEPT !.at = "mark", !.id = c, !.list = @ \ {c}]
               ELSE [loop EXCEPT !.at = "duePut", !.id = c, !.list = @ \ {c}, !.next = Checked(c)]
  /\ UNCHANGED <<now, auths, authEpochs, heap, dirty, wakeCh, timer, jobs, procs, tellVars, historyVars, events>>

MayMark(c) == Present(auths[c]) /\ ~Live(auths[c], loop.time)

markRefreshPending ==
  /\ loop.at = "mark"
  /\ LET c == loop.id IN
       IF MayMark(c)
         THEN /\ auths' = [auths EXCEPT ![c].hold = loop.time + Backoff]
              /\ queueReschedule(c)
              /\ loop' = [loop EXCEPT !.at = "send"]
         ELSE /\ loop' = [loop EXCEPT !.at = "duePut", !.next = Checked(c)]
              /\ UNCHANGED <<auths, dirty, wakeCh>>
  /\ UNCHANGED <<now, authEpochs, heap, timer, jobs, procs, tellVars, historyVars, events>>

Put ==
  /\ loop.at \in {"duePut", "dirtyPut"}
  /\ heap' = upsert(loop.id, loop.next)
  /\ loop' = [loop EXCEPT !.at = IF @ = "duePut" THEN "due" ELSE "dirty", !.id = None, !.next = None]
  /\ UNCHANGED <<now, auths, authEpochs, dirty, wakeCh, timer, jobs, procs, tellVars, historyVars, events>>

HasRoom == Len(jobs) < Capacity

SendJob ==
  /\ loop.at = "send" /\ HasRoom
  /\ jobs' = Append(jobs, loop.id)
  /\ loop' = [loop EXCEPT !.at = "due", !.id = None]
  /\ UNCHANGED <<now, auths, authEpochs, heap, dirty, wakeCh, timer, procs, tellVars, historyVars, events>>

drainDirty(t) == /\ loop' = [LoopSelect EXCEPT !.at = "dirty", !.list = dirty, !.time = t]
                 /\ dirty' = {}

Wake ==
  /\ loop.at = "select" /\ wakeCh /\ wakeCh' = FALSE
  /\ drainDirty(now)
  /\ UNCHANGED <<now, auths, authEpochs, heap, timer, jobs, procs, tellVars, historyVars, events>>

DueDone ==
  /\ loop.at = "due" /\ loop.list = {}
  /\ drainDirty(loop.time)
  /\ UNCHANGED <<now, auths, authEpochs, heap, wakeCh, timer, jobs, procs, tellVars, historyVars, events>>

applyDirty(c) ==
  /\ loop.at = "dirty" /\ c \in loop.list
  /\ loop' = [loop EXCEPT !.at = "dirtyPut", !.id = c, !.list = @ \ {c}, !.next = Checked(c)]
  /\ UNCHANGED <<now, auths, authEpochs, heap, dirty, wakeCh, timer, jobs, procs, tellVars, historyVars, events>>

resetTimer ==
  /\ loop.at = "dirty" /\ loop.list = {}
  /\ timer' = IF On = {} THEN None ELSE Min({heap[c] : c \in On})
  /\ loop' = LoopSelect
  /\ UNCHANGED <<now, auths, authEpochs, heap, dirty, wakeCh, jobs, procs, tellVars, historyVars, events>>

-----------------------------------------------------------------------------
\* refreshAuthForRequest, by a worker or by a request.

To(p, state) == procs' = [procs EXCEPT ![p] = state]

TakeJob(p) ==
  /\ p \in Workers /\ procs[p].at = "idle" /\ jobs # <<>>
  /\ To(p, [ProcIdle EXCEPT !.at = "waiting", !.id = Head(jobs)])
  /\ jobs' = Tail(jobs)
  /\ UNCHANGED <<now, auths, authEpochs, heap, dirty, wakeCh, timer, loop, tellVars, historyVars, events>>

\* A request was refused with the token it had used, or with none: forced.
Request(p, c, failed) ==
  /\ Counting /\ p \in Requests /\ procs[p].at = "idle" /\ Present(auths[c])
  /\ To(p, [ProcIdle EXCEPT !.at = "waiting", !.id = c, !.failed = failed])
  /\ UNCHANGED <<now, auths, authEpochs, loopVars, tellVars, historyVars>>

NoLock(c) == TRUE       \* a seeded fault: refreshes of one credential overlap
Unlocked(c) == \A p \in Processes : ~(procs[p].at = "calling" /\ procs[p].id = c)

Reusable(a, failed) == failed # 0 /\ a.token # failed

Begin(p) ==
  /\ procs[p].at = "waiting" /\ Unlocked(procs[p].id)
  /\ LET a == auths[procs[p].id] IN
       IF ~Present(a) \/ Reusable(a, procs[p].failed)
         THEN To(p, [procs[p] EXCEPT !.at = "done", !.failed = 0])
         ELSE To(p, [procs[p] EXCEPT !.at = "calling", !.failed = 0, !.base = Base(a)])
  /\ UNCHANGED <<now, auths, authEpochs, loopVars, tellVars, historyVars, events>>

AnyIncarnation(c, base) == Present(auths[c])     \* a seeded fault: the epoch is not compared
SameIncarnation(c, base) == Present(auths[c]) /\ auths[c].epoch = base.epoch

\* MergeRefreshedAuth: the new token wins; NextRefreshAfter is the refresh's if
\* it has one or had one to clear.
Renewed(a, base, token, d) ==
  LET ineffective == IF d <= now THEN now + Backoff ELSE 0 IN
    [a EXCEPT !.token = token, !.from = base.epoch, !.due = d, !.bad = FALSE,
              !.hold = IF ineffective # 0 \/ base.held THEN ineffective ELSE @]

RefreshSucceeds(p, c, d) ==
  /\ Calling(p, c)
  /\ spent' = spent \cup {<<c, procs[p].base.token>>} /\ minted' = [minted EXCEPT ![c] = @ + 1]
  /\ IF SameIncarnation(c, procs[p].base)
       THEN /\ auths' = [auths EXCEPT ![c] = Renewed(@, procs[p].base, minted[c] + 1, d)]
            /\ restored' = {t \in restored : t[1] # c}
            /\ notifying' = notifying \cup {c}
       ELSE UNCHANGED <<auths, restored, notifying>>
  /\ To(p, [procs[p] EXCEPT !.at = "done", !.base = NoBase])
  /\ UNCHANGED <<now, authEpochs, loopVars, unscheduling, edits, events>>

Failed(a, unauthorized) ==
  IF now < Expiry(a)
    THEN [a EXCEPT !.hold = Smaller(now + Backoff, Expiry(a)), !.bad = @ /\ unauthorized]
    ELSE [a EXCEPT !.hold = IF unauthorized THEN 0 ELSE now + Backoff, !.bad = unauthorized]

RefreshFails(p, c, unauthorized) ==
  /\ Calling(p, c)
  /\ IF SameIncarnation(c, procs[p].base)
       THEN /\ auths' = [auths EXCEPT ![c] = Failed(@, unauthorized)]
            /\ notifying' = notifying \cup {c}
       ELSE UNCHANGED <<auths, notifying>>
  /\ To(p, [procs[p] EXCEPT !.at = "done", !.base = NoBase])
  /\ UNCHANGED <<now, authEpochs, loopVars, unscheduling, edits, historyVars, events>>

RefreshCancelled(p, c) ==
  /\ Calling(p, c)
  /\ To(p, [procs[p] EXCEPT !.at = "done", !.base = NoBase])
  /\ UNCHANGED <<now, auths, authEpochs, loopVars, tellVars, historyVars, events>>

\* A worker tells the loop once more, whatever the outcome.
Finish(p) ==
  /\ procs[p].at = "done" /\ To(p, ProcIdle)
  /\ IF p \in Workers THEN queueReschedule(procs[p].id) ELSE UNCHANGED <<dirty, wakeCh>>
  /\ UNCHANGED <<now, auths, authEpochs, heap, timer, loop, jobs, tellVars, historyVars, events>>

-----------------------------------------------------------------------------
\* A token is due at once, or later.
Dues == {now, now + 1}

\* A file holds a new token, or one it has held before.
Lifecycle(c) == \/ \E d \in Dues, token \in 1..(minted[c] + 1) :
                     Register(c, token, d) \/ UpdateFromFile(c, token, d)
                \/ GetByID(c) \/ UpdateEdited(c)
                \/ Remove(c) \/ \E ok \in BOOLEAN : MarkResult(c, ok)
Loop == \/ TimerFires \/ markRefreshPending \/ Put \/ SendJob \/ Wake \/ DueDone \/ resetTimer
        \/ \E c \in Credentials : HandleDue(c) \/ applyDirty(c)
Return(p) == \E c \in Credentials :
               \/ \E d \in Dues : RefreshSucceeds(p, c, d)
               \/ \E unauthorized \in BOOLEAN : RefreshFails(p, c, unauthorized)
               \/ RefreshCancelled(p, c)

Next == \/ Tick
        \/ \E c \in Credentials : Lifecycle(c) \/ Notify(c) \/ queueRefreshUnschedule(c)
        \/ Loop
        \/ \E p \in Requests, c \in Credentials : \E failed \in 0..minted[c] : Request(p, c, failed)
        \/ \E p \in Processes : TakeJob(p) \/ Begin(p) \/ Return(p) \/ Finish(p)

Spec == Init /\ [][Next]_vars

-----------------------------------------------------------------------------
\* Types of every variable, for the proofs and as a check on the model.
Auths == [epoch : Nat, token : Nat, from : Nat, due : Nat, hold : Nat, bad : BOOLEAN]

TypeOK ==
  /\ now \in 1..Larger(1, MaxTime) /\ auths \in [Credentials -> Auths]
  /\ authEpochs \in [Credentials -> Nat]
  /\ heap \in [Credentials -> Times \cup {None}]
  /\ dirty \subseteq Credentials /\ wakeCh \in BOOLEAN
  /\ timer \in Times \cup {None}
  /\ loop \in [at : {"select", "due", "duePut", "mark", "send", "dirty", "dirtyPut"}, list : SUBSET Credentials,
               id : Credentials \cup {None}, time : 0..MaxTime, next : Times \cup {None}]
  /\ jobs \in Seq(Credentials) /\ Len(jobs) <= Capacity
  /\ procs \in [Processes -> [at : {"idle", "waiting", "calling", "done"},
                              id : Credentials \cup {None}, failed : Nat,
                              base : [epoch : Nat, token : Nat, held : BOOLEAN]]]
  /\ notifying \subseteq Credentials /\ unscheduling \subseteq Credentials
  /\ edits \in [Credentials -> Auths] /\ restored \subseteq Credentials \X Nat
  /\ minted \in [Credentials -> Nat] /\ spent \subseteq Credentials \X Nat /\ events \in 0..MaxEvents

\* The loop has been told of c and not looked at it yet.
Told(c) == c \in notifying \cup dirty \/ (loop.at = "dirty" /\ c \in loop.list)
InHand(c) == \/ loop.at \in {"due", "duePut", "mark", "send"} /\ c \in loop.list
             \/ loop.at \in {"duePut", "mark", "send"} /\ c = loop.id
             \/ loop.at = "dirtyPut" /\ c \in loop.list \cup {loop.id}
AtWork(c) == \/ \E k \in DOMAIN jobs : jobs[k] = c
             \/ \E p \in Workers : procs[p].at # "idle" /\ procs[p].id = c

\* No credential that may be refreshed is forgotten, however the loop, a refresh,
\* a change and a removal interleave: it is on the heap in time for its next
\* check, or the loop or a worker still has it.
NeverForgotten ==
  \A c \in Credentials : Scheduled(auths[c]) =>
    \/ Told(c) \/ InHand(c) \/ AtWork(c)
    \/ heap[c] # None /\ heap[c] <= nextRefreshCheckAt(auths[c], now)

\* The loop wakes up for whatever is due: told or with a timer early enough.
NeverAsleep ==
  loop.at = "select" => /\ dirty # {} => wakeCh
                        /\ On # {} => timer # None /\ timer <= Min({heap[c] : c \in On})

\* However refreshes, edits, removals and registrations interleave, a refresh token
\* that was exchanged is not presented again (providers revoke the credential if
\* it is), unless a caller of Update or Register has stored it again since the
\* last refresh of the credential; that is worth one more exchange.
RefreshTokenUsedOnce ==
  \A p \in Processes : procs[p].at = "calling" =>
    LET token == <<procs[p].id, procs[p].base.token>>
    IN  token \in spent => token \in restored

\* A credential holds a token of its own registration, never the result of a
\* refresh begun for the one it has replaced.
TokenOfThisIncarnation == \A c \in Credentials : auths[c].from = auths[c].epoch
=============================================================================
