------------------------- MODULE ExecutionRegistry --------------------------
(***************************************************************************)
(* The registry of executions that Home has dispatched to this process,    *)
(* for one lifetime of the subscription, and the flusher that reports      *)
(* releases to Home.  Every dispatch has an owner, the goroutine that      *)
(* serves the request; drain and close come from the goroutines of the     *)
(* subscription and of the shutdown.  The state word is changed by compare *)
(* and swap outside the registry's mutex, the release sink is called after *)
(* the unlock, and a resource is closed by a goroutine of its own.         *)
(***************************************************************************)
EXTENDS Integers, FiniteSets

CONSTANTS Groups,         \* ReleaseGroup: an accounted credential and model
          Unaccounted,    \* the group of a scope that is not accounted
          MaxDispatches,  \* bound on dispatches begun
          MaxBarrier,     \* bound on barrier revisions
          MaxEvents       \* bound on barriers, sinks set and closes together

ASSUME GroupAssumption == Unaccounted \notin Groups
ASSUME BoundAssumption == MaxDispatches \in Nat /\ MaxBarrier \in Nat /\ MaxEvents \in Nat

VARIABLES state,                   \* Registry.state
          next,                    \* Registry.next, the last dispatch begun
          pending, scopes,         \* Registry.pending, Registry.scopes
          releaseSequences, releaseSink,
          observedBarrier, pendingBarrierSequence, publishedBarrier,
          owner,                   \* where the goroutine of a dispatch is
          group, resource,         \* Scope.spec; Scope.closeFn and closeDone
          call,                    \* the sequence that goes to the sink
          drain, closer,           \* where Drain and Close are
          replay,                  \* what SetReleaseSink has yet to replay
          latest, acked, flushing, ticket,  \* the flusher
          home,                    \* what Home knows
          begunAt,                 \* history: next when a barrier was observed
          events                   \* how many of the bounded events occurred

registryVars == <<state, next, pending, scopes>>
barrierVars == <<observedBarrier, pendingBarrierSequence, publishedBarrier, begunAt>>
scopeVars == <<owner, group, resource, call>>
sinkVars == <<releaseSequences, releaseSink, replay>>
flushVars == <<latest, acked, flushing, ticket, home>>
vars == <<registryVars, barrierVars, scopeVars, sinkVars, flushVars, drain, closer, events>>

Counting == events < MaxEvents /\ events' = events + 1

Ids == 1..MaxDispatches
Sequences == 0..MaxDispatches
\* An owner that has counted its release: what it has yet to do is report it.
Counted == {"reporting", "reported", "gone"}
Running == {"installed", "running", "waiting"}
Larger(m, n) == IF m < n THEN n ELSE m

Init == /\ state = "accepting" /\ next = 0 /\ pending = {} /\ scopes = {}
        /\ releaseSequences = [g \in Groups |-> 0] /\ releaseSink \in BOOLEAN
        /\ replay = [g \in Groups |-> 0]
        /\ observedBarrier = 0 /\ pendingBarrierSequence = 0 /\ publishedBarrier = 0
        /\ begunAt = [b \in 0..MaxBarrier |-> 0]
        /\ owner = [i \in Ids |-> "idle"] /\ group = [i \in Ids |-> Unaccounted]
        /\ resource = [i \in Ids |-> "none"] /\ call = [i \in Ids |-> 0]
        /\ drain = [at |-> "idle", list |-> {}] /\ closer = [at |-> "idle", list |-> {}, scope |-> 0]
        /\ latest = [g \in Groups |-> 0] /\ acked = [g \in Groups |-> 0]
        /\ flushing = [g \in Groups |-> 0] /\ ticket = [i \in Ids |-> "none"]
        /\ home = [g \in Groups |-> 0] /\ events = 0

-----------------------------------------------------------------------------
\* The owner of a dispatch.

\* A seeded fault: the state is read before the lock, and not again under it.
AcceptingBefore == TRUE
Accepting == state = "accepting"

BeginDispatch ==
  /\ Accepting /\ next < MaxDispatches
  /\ next' = next + 1
  /\ pending' = pending \cup {next + 1}
  /\ owner' = [owner EXCEPT ![next + 1] = "dispatching"]
  /\ UNCHANGED <<state, scopes, barrierVars, group, resource, call, sinkVars, flushVars, drain, closer, events>>

\* Home refused, or its answer was lost or malformed.
PendingEnd(i) ==
  /\ owner[i] = "dispatching"
  /\ pending' = pending \ {i}
  /\ owner' = [owner EXCEPT ![i] = "gone"]
  /\ UNCHANGED <<state, next, scopes, barrierVars, group, resource, call, sinkVars, flushVars, drain, closer, events>>

Install(i, g) ==
  /\ owner[i] = "dispatching" /\ state = "accepting" /\ i \in pending
  /\ pending' = pending \ {i} /\ scopes' = scopes \cup {i}
  /\ group' = [group EXCEPT ![i] = g]
  /\ owner' = [owner EXCEPT ![i] = "installed"]
  /\ UNCHANGED <<state, next, barrierVars, resource, call, sinkVars, flushVars, drain, closer, events>>

\* Too late: the token is given back, as by PendingEnd.
InstallRefused(i) == state # "accepting" /\ PendingEnd(i)

BindUnguarded(i) == owner[i] = "installed"   \* a seeded fault: the state is not looked at
MayBind(i) == owner[i] = "installed" /\ state = "accepting"

Bind(i) ==
  /\ MayBind(i) /\ resource[i] = "none"
  /\ resource' = [resource EXCEPT ![i] = "bound"]
  /\ owner' = [owner EXCEPT ![i] = "running"]
  /\ UNCHANGED <<registryVars, barrierVars, group, call, sinkVars, flushVars, drain, closer, events>>

Closing(i) == IF resource[i] = "bound" THEN [resource EXCEPT ![i] = "closing"] ELSE resource

\* The execution is over, was cancelled, or its resource could not be bound.
EndWithRelease(i) ==
  /\ owner[i] \in {"installed", "running"}
  /\ resource' = Closing(i)
  /\ owner' = [owner EXCEPT ![i] = "waiting"]
  /\ UNCHANGED <<registryVars, barrierVars, group, call, sinkVars, flushVars, drain, closer, events>>

\* The goroutine that runs the close function.
CloseResource(i) ==
  /\ resource[i] = "closing"
  /\ resource' = [resource EXCEPT ![i] = "closed"]
  /\ UNCHANGED <<registryVars, barrierVars, owner, group, call, sinkVars, flushVars, drain, closer, events>>

EarlyClosed(i) == resource[i] # "bound"    \* a seeded fault: the close is not awaited
AwaitedClose(i) == resource[i] \in {"none", "closed"}

\* The sequence is counted, and the sink chosen, under the lock.
MarkReleased(i) ==
  /\ owner[i] = "waiting" /\ AwaitedClose(i)
  /\ owner' = [owner EXCEPT ![i] = "reporting"]
  /\ IF group[i] \in Groups
       THEN /\ releaseSequences' = [releaseSequences EXCEPT ![group[i]] = @ + 1]
            /\ call' = [call EXCEPT ![i] = IF releaseSink THEN releaseSequences[group[i]] + 1 ELSE 0]
       ELSE UNCHANGED <<releaseSequences, call>>
  /\ UNCHANGED <<registryVars, barrierVars, group, resource, releaseSink, replay, flushVars, drain, closer, events>>

\* The flusher hears of sequence n: the sink, called without the lock.
Heard(g, n) == [latest EXCEPT ![g] = IF n <= acked[g] THEN @ ELSE Larger(@, n)]

MarkDirtyLast(g, n) == [latest EXCEPT ![g] = n]   \* a seeded fault: the last call wins
MarkDirty(g, n) == Heard(g, n)

ReleaseSinkCall(i) ==
  /\ owner[i] = "reporting"
  /\ IF call[i] > 0
       THEN /\ latest' = MarkDirty(group[i], call[i])
            /\ ticket' = [ticket EXCEPT ![i] = IF call[i] <= acked[group[i]] THEN "done" ELSE "waiting"]
       ELSE UNCHANGED <<latest, ticket>>
  /\ owner' = [owner EXCEPT ![i] = "reported"]
  /\ UNCHANGED <<registryVars, barrierVars, group, resource, call, sinkVars, acked, flushing, home, drain, closer, events>>

DeleteScope(i) ==
  /\ owner[i] = "reported"
  /\ scopes' = scopes \ {i}
  /\ owner' = [owner EXCEPT ![i] = "gone"]
  /\ UNCHANGED <<state, next, pending, barrierVars, group, resource, call, sinkVars, flushVars, drain, closer, events>>

-----------------------------------------------------------------------------
\* The release sink: detached before a drain whose releases Home must not see;
\* attaching one replays what was counted before, outside the lock.

SetReleaseSink(on) ==
  /\ Counting
  /\ \A g \in Groups : replay[g] = 0
  /\ releaseSink' = on
  /\ replay' = IF on THEN releaseSequences ELSE replay
  /\ UNCHANGED <<registryVars, barrierVars, scopeVars, releaseSequences, flushVars, drain, closer>>

ReplayCall(g) ==
  /\ replay[g] > 0
  /\ latest' = MarkDirty(g, replay[g])
  /\ replay' = [replay EXCEPT ![g] = 0]
  /\ UNCHANGED <<registryVars, barrierVars, scopeVars, releaseSequences, releaseSink,
                 acked, flushing, ticket, home, drain, closer, events>>

-----------------------------------------------------------------------------
\* Drain: refuse new work, cancel what is bound, wait for every owner.

DrainBegin ==
  /\ drain.at \in {"idle", "expired"} /\ state \in {"accepting", "draining"}
  /\ state' = "draining"
  /\ drain' = [at |-> "listing", list |-> {}]
  /\ UNCHANGED <<next, pending, scopes, barrierVars, scopeVars, sinkVars, flushVars, closer, events>>

DrainListEmpty == drain' = [at |-> "waiting", list |-> {}]   \* a seeded fault: nothing is cancelled
DrainListAll == drain' = [at |-> "cancelling", list |-> scopes]

DrainList ==
  /\ drain.at = "listing" /\ DrainListAll
  /\ UNCHANGED <<registryVars, barrierVars, scopeVars, sinkVars, flushVars, closer, events>>

DrainCancel(i) ==
  /\ drain.at = "cancelling" /\ i \in drain.list
  /\ resource' = Closing(i)
  /\ drain' = [drain EXCEPT !.list = @ \ {i}]
  /\ UNCHANGED <<registryVars, barrierVars, owner, group, call, sinkVars, flushVars, closer, events>>

Emptied == pending = {} /\ scopes = {}

DrainWait ==
  /\ drain.at = "cancelling" /\ drain.list = {}
  /\ drain' = [drain EXCEPT !.at = "waiting"]
  /\ UNCHANGED <<registryVars, barrierVars, scopeVars, sinkVars, flushVars, closer, events>>

DrainDone ==
  /\ drain.at = "waiting" /\ Emptied
  /\ state' = "closed"
  /\ drain' = [drain EXCEPT !.at = "done"]
  /\ UNCHANGED <<next, pending, scopes, barrierVars, scopeVars, sinkVars, flushVars, closer, events>>

\* The bound on the drain ran out; a later drain starts over.
DrainExpired ==
  /\ drain.at = "waiting" /\ ~Emptied
  /\ drain' = [drain EXCEPT !.at = "expired"]
  /\ UNCHANGED <<registryVars, barrierVars, scopeVars, sinkVars, flushVars, closer, events>>

-----------------------------------------------------------------------------
\* Close: refuse everything at once and wait for the bound resources.  Further
\* callers wait for the first; they change nothing.

CloseBegin ==
  /\ Counting
  /\ closer.at = "idle" /\ state # "closed"
  /\ state' = "closed"
  /\ closer' = [closer EXCEPT !.at = "listing"]
  /\ UNCHANGED <<next, pending, scopes, barrierVars, scopeVars, sinkVars, flushVars, drain>>

CloseList ==
  /\ closer.at = "listing"
  /\ closer' = [closer EXCEPT !.at = "closing", !.list = scopes]
  /\ UNCHANGED <<registryVars, barrierVars, scopeVars, sinkVars, flushVars, drain, events>>

\* waitForBoundResourceClose, for one scope after the other.
CloseStart(i) ==
  /\ closer.at = "closing" /\ closer.scope = 0 /\ i \in closer.list
  /\ resource' = Closing(i)
  /\ closer' = [closer EXCEPT !.scope = i]
  /\ UNCHANGED <<registryVars, barrierVars, owner, group, call, sinkVars, flushVars, drain, events>>

CloseWaited(i) ==
  /\ closer.at = "closing" /\ closer.scope = i /\ AwaitedClose(i)
  /\ closer' = [closer EXCEPT !.list = @ \ {i}, !.scope = 0]
  /\ UNCHANGED <<registryVars, barrierVars, scopeVars, sinkVars, flushVars, drain, events>>

CloseDone ==
  /\ closer.at = "closing" /\ closer.list = {}
  /\ closer' = [closer EXCEPT !.at = "done"]
  /\ UNCHANGED <<registryVars, barrierVars, scopeVars, sinkVars, flushVars, drain, events>>

-----------------------------------------------------------------------------
\* Barriers: Home asks for a snapshot that covers every earlier dispatch.

PendingSequenceStale(b) == pendingBarrierSequence   \* a seeded fault: not moved
PendingSequenceAt(b) == next

ObserveBarrier(b) ==
  /\ Counting
  /\ b > observedBarrier
  /\ observedBarrier' = b
  /\ pendingBarrierSequence' = PendingSequenceAt(b)
  /\ begunAt' = [begunAt EXCEPT ![b] = next]
  /\ UNCHANGED <<registryVars, publishedBarrier, scopeVars, sinkVars, flushVars, drain, closer>>

FreezeInFlight ==
  /\ observedBarrier > publishedBarrier
  /\ \A i \in pending : i > pendingBarrierSequence
  /\ publishedBarrier' = observedBarrier
  /\ UNCHANGED <<registryVars, observedBarrier, pendingBarrierSequence, begunAt, scopeVars, sinkVars, flushVars, drain, closer, events>>

-----------------------------------------------------------------------------
\* The flusher: one goroutine, which sends what is dirty and retries later.

Dirty(g) == latest[g] > acked[g]

FlushBegin ==
  /\ \A g \in Groups : flushing[g] = 0
  /\ \E g \in Groups : Dirty(g)
  /\ flushing' = [g \in Groups |-> IF Dirty(g) THEN latest[g] ELSE 0]
  /\ UNCHANGED <<registryVars, barrierVars, scopeVars, sinkVars, latest, acked, ticket, home, drain, closer, events>>

Sent(g) == /\ flushing[g] > 0
           /\ flushing' = [flushing EXCEPT ![g] = 0]

\* Tickets up to the acknowledged sequence complete.
CompletedExactly(g) == {i \in Ids : group[i] = g /\ call[i] = flushing[g]}  \* a seeded fault
Completed(g) == {i \in Ids : group[i] = g /\ call[i] <= flushing[g]}

SendAcknowledged(g) ==
  /\ Sent(g)
  /\ home' = [home EXCEPT ![g] = Larger(@, flushing[g])]
  /\ acked' = [acked EXCEPT ![g] = Larger(@, flushing[g])]
  /\ ticket' = [i \in Ids |-> IF ticket[i] = "waiting" /\ i \in Completed(g) THEN "done" ELSE ticket[i]]
  /\ UNCHANGED <<registryVars, barrierVars, scopeVars, sinkVars, latest, drain, closer, events>>

\* The send failed; Home may have received it all the same.
SendFailed(g) ==
  /\ Sent(g)
  /\ home' \in {home, [home EXCEPT ![g] = Larger(@, flushing[g])]}
  /\ UNCHANGED <<registryVars, barrierVars, scopeVars, sinkVars, latest, acked, ticket, drain, closer, events>>

-----------------------------------------------------------------------------
Respond(i) == PendingEnd(i) \/ InstallRefused(i) \/ \E g \in Groups \cup {Unaccounted} : Install(i, g)
Owner(i) == \/ Respond(i) \/ Bind(i) \/ EndWithRelease(i) \/ CloseResource(i)
            \/ MarkReleased(i) \/ ReleaseSinkCall(i) \/ DeleteScope(i)
Drain == \/ DrainBegin \/ DrainList \/ DrainWait \/ DrainDone \/ DrainExpired
         \/ \E i \in Ids : DrainCancel(i)
Close == \/ CloseBegin \/ CloseList \/ CloseDone
         \/ \E i \in Ids : CloseStart(i) \/ CloseWaited(i)
Sink == \/ \E on \in BOOLEAN : SetReleaseSink(on)
        \/ \E g \in Groups : ReplayCall(g)
Barrier == FreezeInFlight \/ \E b \in 1..MaxBarrier : ObserveBarrier(b)
Flush == FlushBegin \/ \E g \in Groups : SendAcknowledged(g) \/ SendFailed(g)

Next == BeginDispatch \/ (\E i \in Ids : Owner(i)) \/ Drain \/ Close \/ Sink \/ Barrier \/ Flush

\* An execution may run as long as it likes; one whose resource is being closed
\* notices and ends, and one that could not be bound ends.
Cancelled(i) == owner[i] = "installed" \/ resource[i] # "bound"

\* Home answers or the call times out, goroutines go on, close functions return,
\* and sends do not fail for ever.  Nothing says that a drain or a close begins.
Fairness ==
  /\ \A i \in Ids : /\ WF_vars(Respond(i)) /\ WF_vars(CloseResource(i))
                    /\ WF_vars(Cancelled(i) /\ EndWithRelease(i))
                    /\ WF_vars(MarkReleased(i)) /\ WF_vars(ReleaseSinkCall(i)) /\ WF_vars(DeleteScope(i))
                    /\ WF_vars(DrainCancel(i)) /\ WF_vars(CloseStart(i)) /\ WF_vars(CloseWaited(i))
  /\ WF_vars(DrainList) /\ WF_vars(CloseList)
  /\ WF_vars(FlushBegin) /\ \A g \in Groups : SF_vars(SendAcknowledged(g))

Spec == Init /\ [][Next]_vars
FairSpec == Spec /\ Fairness

-----------------------------------------------------------------------------
\* Types of every variable, for the proofs and as a check on the model.
TypeOK ==
  /\ state \in {"accepting", "draining", "closed"} /\ next \in Sequences
  /\ pending \subseteq Ids /\ scopes \subseteq Ids
  /\ releaseSequences \in [Groups -> Nat] /\ releaseSink \in BOOLEAN /\ replay \in [Groups -> Nat]
  /\ observedBarrier \in 0..MaxBarrier /\ publishedBarrier \in 0..MaxBarrier
  /\ pendingBarrierSequence \in Sequences /\ begunAt \in [0..MaxBarrier -> Sequences]
  /\ owner \in [Ids -> {"idle", "dispatching"} \cup Running \cup Counted]
  /\ group \in [Ids -> Groups \cup {Unaccounted}]
  /\ resource \in [Ids -> {"none", "bound", "closing", "closed"}] /\ call \in [Ids -> Nat]
  /\ drain \in [at : {"idle", "listing", "cancelling", "waiting", "done", "expired"}, list : SUBSET Ids]
  /\ closer \in [at : {"idle", "listing", "closing", "done"}, list : SUBSET Ids, scope : Ids \cup {0}]
  /\ latest \in [Groups -> Nat] /\ acked \in [Groups -> Nat] /\ flushing \in [Groups -> Nat]
  /\ ticket \in [Ids -> {"none", "waiting", "done"}] /\ home \in [Groups -> Nat]
  /\ events \in 0..MaxEvents

\* Executions of a group whose slot is free: their release was counted and
\* nothing of theirs is open upstream.
Freed(g) == {i \in Ids : group[i] = g /\ owner[i] \in Counted /\ resource[i] \in {"none", "closed"}}

\* Home is never told of more free slots than there are: whatever the order of
\* ends, drains, failed sends and replays, a slot is reported only after the
\* resource of its execution was closed.
SlotsNotFreedEarly == \A g \in Groups : home[g] <= Cardinality(Freed(g))

\* No release is lost between registry and flusher: when no scope is left, the
\* sink is attached and its replay is over, the flusher knows every release.
\* This is what makes a drain followed by a flush complete.
EveryReleaseReported ==
  (scopes = {} /\ releaseSink /\ \A g \in Groups : replay[g] = 0) => latest = releaseSequences

\* A snapshot that carries barrier b leaves out no dispatch begun before b was
\* observed: each of them is a scope by now or over, however many barriers and
\* dispatches came in between.
BarrierCovers ==
  \A b \in 1..MaxBarrier : b <= publishedBarrier => \A i \in pending : i > begunAt[b]

\* When a drain has succeeded or a close has returned, no upstream resource is
\* open or closing, even those of scopes installed or bound while the state
\* word was being swapped.
NothingLeftOpen ==
  /\ drain.at = "done" => Emptied
  /\ (drain.at = "done" \/ closer.at = "done") => \A i \in Ids : resource[i] \notin {"bound", "closing"}

\* Every dispatch is resolved once a drain or a close has begun, although an
\* execution that is not cancelled may last for ever.
DrainEnds == state # "accepting" ~> Emptied

\* Whoever waits for Home's acknowledgement gets it, also when the sink was
\* called out of order.
TicketsComplete == \A i \in Ids : ticket[i] = "waiting" ~> ticket[i] = "done"

\* The registry keeps the ledger: one count per execution, nothing begun after
\* the registry stopped accepting, Home told of counted executions only.
Ledger == INSTANCE DispatchLedger WITH
  shut <- state # "accepting", begun <- 1..next,
  open <- pending \cup {i \in scopes : owner[i] \notin Counted},
  counted <- releaseSequences, told <- home
KeepsLedger == Ledger!Spec

-----------------------------------------------------------------------------
\* Why.  The owner's place says where the registry has its dispatch, and what
\* can have happened to it.
Kept == Running \cup {"reporting", "reported"}
Located ==
  /\ \A i \in Ids : i > next => owner[i] = "idle"
  /\ \A i \in Ids : (i \in pending <=> owner[i] = "dispatching") /\ (i \in scopes <=> owner[i] \in Kept)

Staged ==
  \A i \in Ids :
    /\ owner[i] \in {"idle", "dispatching"} => group[i] = Unaccounted /\ call[i] = 0 /\ resource[i] = "none"
    /\ resource[i] \in {"bound", "closing"} => owner[i] \in {"running", "waiting"}
    /\ call[i] > 0 => /\ owner[i] \in Counted /\ group[i] \in Groups
                      /\ call[i] <= releaseSequences[group[i]]

\* The sequence of a group is the number of its releases.
Released(g) == {i \in Ids : group[i] = g /\ owner[i] \in Counted}
Numbered == \A g \in Groups : releaseSequences[g] = Cardinality(Released(g))

\* Flusher and Home know of no release that was not counted, and the last one
\* is known, or will be by a replay or by its owner's call.
Known ==
  \A g \in Groups :
    /\ home[g] <= releaseSequences[g] /\ replay[g] <= releaseSequences[g]
    /\ acked[g] <= latest[g] /\ flushing[g] <= latest[g] /\ latest[g] <= releaseSequences[g]
    /\ releaseSink => \/ latest[g] = releaseSequences[g] \/ replay[g] = releaseSequences[g]
                      \/ \E i \in Ids : /\ owner[i] = "reporting" /\ group[i] = g
                                        /\ call[i] = releaseSequences[g]

\* Drain and close come after the end of accepting, and watch what was open.
Stopped ==
  /\ drain.at # "idle" \/ closer.at # "idle" => state # "accepting"
  /\ drain.at = "done" => Emptied
  /\ closer.at \in {"closing", "done"} =>
       \A i \in Ids : resource[i] \in {"bound", "closing"} => i \in closer.list
  /\ closer.at = "done" => closer.list = {}

Covered ==
  /\ publishedBarrier <= observedBarrier /\ pendingBarrierSequence <= next
  /\ \A b \in 0..MaxBarrier : begunAt[b] <= pendingBarrierSequence

RegistryInv == Located /\ Staged /\ Numbered /\ Known /\ Stopped /\ Covered /\ BarrierCovers
=============================================================================
