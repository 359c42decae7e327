---------------------- MODULE ExecutionRegistry_proofs ----------------------
(***************************************************************************)
(* Proofs about ExecutionRegistry, for any groups and any bounds: types,   *)
(* the registry's invariant and what follows from it, and that the         *)
(* registry and its flusher keep the ledger of DispatchLedger.             *)
(***************************************************************************)
EXTENDS ExecutionRegistry, FiniteSetTheorems, TLAPS

-----------------------------------------------------------------------------
\* Types.

LEMMA LargerType == \A m, n \in Nat : Larger(m, n) \in Nat /\ Larger(m, n) >= m /\ Larger(m, n) >= n
BY DEF Larger

LEMMA MarkDirtyType ==
  ASSUME TypeOK, NEW g \in Groups, NEW n \in Nat
  PROVE  /\ MarkDirty(g, n) \in [Groups -> Nat]
         /\ \A o \in Groups \ {g} : MarkDirty(g, n)[o] = latest[o]
         /\ MarkDirty(g, n)[g] = IF n <= acked[g] THEN latest[g] ELSE Larger(latest[g], n)
BY LargerType DEF TypeOK, MarkDirty, Heard

LEMMA ClosingType ==
  ASSUME TypeOK, NEW i \in Ids
  PROVE  /\ Closing(i) \in [Ids -> {"none", "bound", "closing", "closed"}]
         /\ \A j \in Ids \ {i} : Closing(i)[j] = resource[j]
         /\ Closing(i)[i] = IF resource[i] = "bound" THEN "closing" ELSE resource[i]
BY DEF TypeOK, Closing

LEMMA TypeOwner ==
  ASSUME TypeOK, Staged, BeginDispatch \/ \E i \in Ids : Owner(i)
  PROVE  TypeOK'
<1> USE BoundAssumption
    DEF TypeOK, Ids, Sequences, Running, Counted, registryVars, barrierVars, sinkVars, flushVars
<1>1. CASE BeginDispatch
  <2>1. next + 1 \in Ids /\ next + 1 \in Sequences
    BY <1>1 DEF BeginDispatch
  <2> QED BY <1>1, <2>1 DEF BeginDispatch
<1>2. ASSUME NEW i \in Ids, PendingEnd(i)
      PROVE  TypeOK'
  BY <1>2 DEF PendingEnd
<1>3. ASSUME NEW i \in Ids, NEW g \in Groups \cup {Unaccounted}, Install(i, g)
      PROVE  TypeOK'
  BY <1>3 DEF Install
<1>4. ASSUME NEW i \in Ids, Bind(i) \/ CloseResource(i) \/ DeleteScope(i)
      PROVE  TypeOK'
  BY <1>4, ZenonT(30) DEF Bind, CloseResource, DeleteScope
<1>5. ASSUME NEW i \in Ids, EndWithRelease(i)
      PROVE  TypeOK'
  BY <1>5, ClosingType DEF EndWithRelease
<1>6. ASSUME NEW i \in Ids, MarkReleased(i)
      PROVE  TypeOK'
  <2>1. CASE group[i] \in Groups
    <3>1. releaseSequences[group[i]] + 1 \in Nat
      BY <2>1
    <3>2. releaseSequences' = [releaseSequences EXCEPT ![group[i]] = releaseSequences[group[i]] + 1]
      BY <1>6, <2>1 DEF MarkReleased
    <3>3. \E n \in Nat : call' = [call EXCEPT ![i] = n]
      BY <1>6, <2>1, <3>1 DEF MarkReleased
    <3>4. releaseSequences' \in [Groups -> Nat]
      BY <2>1, <3>1, <3>2
    <3>5. call' \in [Ids -> Nat]
      BY <3>3
    <3> QED BY <1>6, <3>4, <3>5 DEF MarkReleased
  <2>2. CASE group[i] \notin Groups
    BY <1>6, <2>2 DEF MarkReleased
  <2> QED BY <2>1, <2>2
<1>7. ASSUME NEW i \in Ids, ReleaseSinkCall(i)
      PROVE  TypeOK'
  <2>1. CASE call[i] > 0 /\ group[i] \in Groups
    <3>1. MarkDirty(group[i], call[i]) \in [Groups -> Nat]
      BY <2>1, MarkDirtyType
    <3> QED BY <1>7, <2>1, <3>1 DEF ReleaseSinkCall
  <2>2. CASE ~(call[i] > 0)
    BY <1>7, <2>2 DEF ReleaseSinkCall
  <2> QED BY <2>1, <2>2 DEF Staged
<1> QED BY <1>1, <1>2, <1>3, <1>4, <1>5, <1>6, <1>7 DEF Owner, Respond, InstallRefused

LEMMA TypeDrainClose ==
  ASSUME TypeOK, Drain \/ Close
  PROVE  TypeOK'
<1> USE BoundAssumption
    DEF TypeOK, registryVars, barrierVars, scopeVars, sinkVars, flushVars
<1>1. CASE DrainBegin \/ DrainList \/ DrainWait \/ DrainDone \/ DrainExpired
  <2>1. drain' \in [at : {"idle", "listing", "cancelling", "waiting", "done", "expired"}, list : SUBSET Ids]
    <3>1. CASE DrainBegin \/ DrainList
      BY <1>1, <3>1 DEF DrainBegin, DrainList, DrainListAll
    <3>2. ASSUME NEW at \in {"waiting", "done", "expired"}, drain' = [drain EXCEPT !.at = at]
          PROVE  drain' \in [at : {"waiting", "done", "expired"}, list : SUBSET Ids]
      BY <3>2
    <3>3. CASE DrainWait \/ DrainDone \/ DrainExpired
      BY <3>2, <3>3 DEF DrainWait, DrainDone, DrainExpired
    <3> QED BY <1>1, <3>1, <3>3
  <2> QED BY <1>1, <2>1 DEF DrainBegin, DrainList, DrainWait, DrainDone, DrainExpired
<1> DEFINE Closers == [at : {"idle", "listing", "closing", "done"}, list : SUBSET Ids, scope : Ids \cup {0}]
<1>2. ASSUME NEW i \in Ids, DrainCancel(i)
      PROVE  TypeOK'
  <2>1. drain' = [drain EXCEPT !.list = drain.list \ {i}]
    BY <1>2 DEF DrainCancel
  <2>2. drain' \in [at : {"idle", "listing", "cancelling", "waiting", "done", "expired"}, list : SUBSET Ids]
    BY <2>1
  <2>3. resource' \in [Ids -> {"none", "bound", "closing", "closed"}]
    BY <1>2, ClosingType DEF DrainCancel
  <2> QED BY <1>2, <2>2, <2>3 DEF DrainCancel
<1>4. ASSUME NEW i \in Ids, CloseStart(i) \/ CloseWaited(i)
      PROVE  TypeOK'
  <2>1. closer' \in Closers
    <3>1. CASE closer' = [closer EXCEPT !.scope = i]
      BY <3>1
    <3>2. CASE closer' = [closer EXCEPT !.list = closer.list \ {i}, !.scope = 0]
      BY <3>2
    <3> QED BY <1>4, <3>1, <3>2 DEF CloseStart, CloseWaited
  <2>2. resource' \in [Ids -> {"none", "bound", "closing", "closed"}]
    BY <1>4, ClosingType DEF CloseStart, CloseWaited
  <2> QED BY <1>4, <2>1, <2>2 DEF CloseStart, CloseWaited
<1>3. CASE CloseBegin \/ CloseList \/ CloseDone
  <2>1. closer' \in Closers
    <3>1. CASE CloseBegin \/ CloseList
      BY <3>1 DEF CloseBegin, CloseList
    <3>2. CASE CloseDone
      BY <3>2 DEF CloseDone
    <3> QED BY <1>3, <3>1, <3>2
  <2> QED BY <1>3, <2>1 DEF CloseBegin, CloseList, CloseDone, Counting
<1> QED BY <1>1, <1>2, <1>3, <1>4 DEF Drain, Close

LEMMA TypeReports ==
  ASSUME TypeOK, Sink \/ Barrier \/ Flush
  PROVE  TypeOK'
<1> USE BoundAssumption
    DEF TypeOK, registryVars, barrierVars, scopeVars, sinkVars, flushVars
<1>1. ASSUME NEW on \in BOOLEAN, SetReleaseSink(on)
      PROVE  TypeOK'
  BY <1>1, SMTT(30) DEF SetReleaseSink, Counting
<1>2. ASSUME NEW g \in Groups, ReplayCall(g)
      PROVE  TypeOK'
  <2>1. MarkDirty(g, replay[g]) \in [Groups -> Nat]
    BY MarkDirtyType
  <2> QED BY <1>2, <2>1 DEF ReplayCall
<1>3. ASSUME NEW b \in 1..MaxBarrier, ObserveBarrier(b)
      PROVE  TypeOK'
  BY <1>3 DEF ObserveBarrier, PendingSequenceAt, Counting
<1>4. CASE FreezeInFlight
  BY <1>4 DEF FreezeInFlight
<1>5. CASE FlushBegin
  BY <1>5 DEF FlushBegin
<1>6. ASSUME NEW g \in Groups, SendAcknowledged(g) \/ SendFailed(g)
      PROVE  TypeOK'
  <2>1. Larger(home[g], flushing[g]) \in Nat /\ Larger(acked[g], flushing[g]) \in Nat
    BY LargerType
  <2>2. flushing' \in [Groups -> Nat] /\ home' \in [Groups -> Nat]
    <3>1. flushing' = [flushing EXCEPT ![g] = 0]
      BY <1>6 DEF SendAcknowledged, SendFailed, Sent
    <3>2. home' = home \/ home' = [home EXCEPT ![g] = Larger(home[g], flushing[g])]
      BY <1>6 DEF SendAcknowledged, SendFailed
    <3> QED BY <2>1, <3>1, <3>2, SMTT(30)
  <2>3. CASE SendAcknowledged(g)
    <3>1. acked' \in [Groups -> Nat]
      BY <2>1, <2>3 DEF SendAcknowledged
    <3>2. ticket' \in [Ids -> {"none", "waiting", "done"}]
      BY <2>3 DEF SendAcknowledged
    <3> QED BY <2>2, <2>3, <3>1, <3>2 DEF SendAcknowledged
  <2>4. CASE SendFailed(g)
    BY <2>2, <2>4 DEF SendFailed
  <2> QED BY <1>6, <2>3, <2>4
<1> QED BY <1>1, <1>2, <1>3, <1>4, <1>5, <1>6 DEF Sink, Barrier, Flush

LEMMA TypeStep == TypeOK /\ Staged /\ [Next]_vars => TypeOK'
<1>1. CASE UNCHANGED vars
  BY <1>1 DEF TypeOK, vars, registryVars, barrierVars, scopeVars, sinkVars, flushVars
<1> QED BY <1>1, TypeOwner, TypeDrainClose, TypeReports DEF Next

-----------------------------------------------------------------------------
\* What the goroutines of the subscription, the shutdown and the flusher leave
\* to the owners.

Others == Drain \/ Close \/ Sink \/ Barrier \/ Flush \/ UNCHANGED vars \/ \E i \in Ids : CloseResource(i)

LEMMA OthersLeave ==
  ASSUME Others
  PROVE  UNCHANGED <<next, pending, scopes, owner, group, call, releaseSequences>>
<1> USE DEF vars, registryVars, barrierVars, scopeVars, sinkVars, flushVars
<1>1. CASE Drain
  BY <1>1 DEF Drain, DrainBegin, DrainList, DrainWait, DrainDone, DrainExpired, DrainCancel
<1>2. CASE Close
  BY <1>2 DEF Close, CloseBegin, CloseList, CloseDone, CloseStart, CloseWaited
<1>3. CASE Sink \/ Barrier \/ Flush
  BY <1>3 DEF Sink, SetReleaseSink, ReplayCall, Barrier, FreezeInFlight, ObserveBarrier,
              Flush, FlushBegin, SendAcknowledged, SendFailed
<1> QED BY <1>1, <1>2, <1>3 DEF Others, CloseResource

LEMMA NextCases ==
  ASSUME [Next]_vars
  PROVE  \/ BeginDispatch \/ Others
         \/ \E i \in Ids : \/ PendingEnd(i) \/ \E g \in Groups \cup {Unaccounted} : Install(i, g)
                           \/ Bind(i) \/ EndWithRelease(i) \/ MarkReleased(i)
                           \/ ReleaseSinkCall(i) \/ DeleteScope(i)
BY DEF Next, Owner, Respond, InstallRefused, Others

LEMMA LocatedStep ==
  ASSUME TypeOK, Located, [Next]_vars
  PROVE  Located'
<1> USE DEF Located, Kept, Running, registryVars
<1>0. owner \in [Ids -> {"idle", "dispatching"} \cup Running \cup Counted] /\ next \in Nat
  BY DEF TypeOK, Sequences
<1>1. CASE BeginDispatch
  <2>1. next + 1 \in Ids /\ owner[next + 1] = "idle"
    BY <1>0, <1>1, BoundAssumption DEF BeginDispatch, Ids
  <2>2. next' = next + 1 /\ owner' = [owner EXCEPT ![next + 1] = "dispatching"]
        /\ pending' = pending \cup {next + 1} /\ scopes' = scopes
    BY <1>1 DEF BeginDispatch
  <2>3. \A j \in Ids : j > next + 1 => j > next
    BY <1>0 DEF Ids
  <2> QED BY <1>0, <2>1, <2>2, <2>3
<1>2. ASSUME NEW i \in Ids, PendingEnd(i) PROVE Located'
  BY <1>0, <1>2 DEF PendingEnd
<1>3. ASSUME NEW i \in Ids, NEW g \in Groups \cup {Unaccounted}, Install(i, g) PROVE Located'
  BY <1>0, <1>3 DEF Install
<1>4. ASSUME NEW i \in Ids, Bind(i) \/ EndWithRelease(i) \/ MarkReleased(i) \/ ReleaseSinkCall(i)
      PROVE  Located'
  <2>1. UNCHANGED <<next, pending, scopes>>
    BY <1>4 DEF Bind, EndWithRelease, MarkReleased, ReleaseSinkCall
  <2>2. owner[i] \in Kept /\ \E to \in Kept : owner' = [owner EXCEPT ![i] = to]
    BY <1>4 DEF Bind, MayBind, EndWithRelease, MarkReleased, ReleaseSinkCall
  <2> QED BY <1>0, <2>1, <2>2
<1>5. ASSUME NEW i \in Ids, DeleteScope(i) PROVE Located'
  BY <1>0, <1>5 DEF DeleteScope
<1>6. CASE Others
  BY <1>6, OthersLeave
<1> QED BY <1>1, <1>2, <1>3, <1>4, <1>5, <1>6, NextCases

\* Resources are bound by their owner only.
Opened(i) == resource[i] \in {"bound", "closing"}

LEMMA ResourceSteps ==
  ASSUME TypeOK, Others \/ (\E i \in Ids : EndWithRelease(i)),
         NEW j \in Ids
  PROVE  (Opened(j)' => Opened(j)) /\ (resource[j] = "none" => resource'[j] = "none")
<1> USE DEF Opened, vars, registryVars, barrierVars, scopeVars, sinkVars, flushVars
<1>1. ASSUME NEW i \in Ids, resource' = Closing(i)
      PROVE  (Opened(j)' => Opened(j)) /\ (resource[j] = "none" => resource'[j] = "none")
  BY <1>1, ClosingType
<1>2. ASSUME NEW i \in Ids, EndWithRelease(i) \/ DrainCancel(i) \/ CloseStart(i)
      PROVE  resource' = Closing(i)
  BY <1>2 DEF EndWithRelease, DrainCancel, CloseStart
<1>3. ASSUME NEW i \in Ids, CloseResource(i)
      PROVE  (Opened(j)' => Opened(j)) /\ (resource[j] = "none" => resource'[j] = "none")
  BY <1>3 DEF CloseResource, TypeOK
<1>4. CASE UNCHANGED resource
  BY <1>4
<1>5. CASE Sink \/ Barrier \/ Flush \/ UNCHANGED vars
  BY <1>4, <1>5 DEF Sink, SetReleaseSink, ReplayCall, Barrier, FreezeInFlight, ObserveBarrier,
                    Flush, FlushBegin, SendAcknowledged, SendFailed
<1>6. CASE Drain
  BY <1>1, <1>2, <1>4, <1>6 DEF Drain, DrainBegin, DrainList, DrainWait, DrainDone, DrainExpired
<1>7. CASE Close
  BY <1>1, <1>2, <1>4, <1>7 DEF Close, CloseBegin, CloseList, CloseDone, CloseWaited
<1> QED BY <1>1, <1>2, <1>3, <1>5, <1>6, <1>7 DEF Others

LEMMA StagedStep ==
  ASSUME TypeOK, Located, Staged, [Next]_vars
  PROVE  Staged'
<1> USE DEF Opened, Running, Counted, registryVars, barrierVars, sinkVars, flushVars
<1>0. /\ owner \in [Ids -> {"idle", "dispatching"} \cup Running \cup Counted] /\ next \in Nat
      /\ group \in [Ids -> Groups \cup {Unaccounted}] /\ call \in [Ids -> Nat]
      /\ releaseSequences \in [Groups -> Nat]
      /\ resource \in [Ids -> {"none", "bound", "closing", "closed"}]
  BY DEF TypeOK, Sequences
<1>1. CASE BeginDispatch
  <2>1. owner[next + 1] = "idle" /\ owner' = [owner EXCEPT ![next + 1] = "dispatching"]
    BY <1>0, <1>1, BoundAssumption DEF BeginDispatch, Located, Ids
  <2>2. UNCHANGED <<group, call, resource, releaseSequences>>
    BY <1>1 DEF BeginDispatch
  <2> QED BY <1>0, <2>1, <2>2 DEF Staged
<1>2. ASSUME NEW i \in Ids, PendingEnd(i) PROVE Staged'
  BY <1>0, <1>2 DEF PendingEnd, Staged
<1>3. ASSUME NEW i \in Ids, NEW g \in Groups \cup {Unaccounted}, Install(i, g) PROVE Staged'
  BY <1>0, <1>3 DEF Install, Staged
<1>4. ASSUME NEW i \in Ids, Bind(i) PROVE Staged'
  BY <1>0, <1>4 DEF Bind, MayBind, Staged
<1>5. ASSUME NEW i \in Ids, EndWithRelease(i) PROVE Staged'
  <2>1. \A j \in Ids : (Opened(j)' => Opened(j)) /\ (resource[j] = "none" => resource'[j] = "none")
    BY <1>5, ResourceSteps
  <2>2. /\ owner[i] \in {"installed", "running"} /\ owner' = [owner EXCEPT ![i] = "waiting"]
        /\ UNCHANGED <<group, call, releaseSequences>>
    BY <1>5 DEF EndWithRelease
  <2> QED BY <1>0, <2>1, <2>2 DEF Staged
<1>6. ASSUME NEW i \in Ids, MarkReleased(i) PROVE Staged'
  <2>1. /\ owner[i] = "waiting" /\ ~Opened(i) /\ owner' = [owner EXCEPT ![i] = "reporting"]
        /\ UNCHANGED <<group, resource>>
    BY <1>6 DEF MarkReleased, AwaitedClose
  <2>2. CASE group[i] \in Groups
    <3>1. releaseSequences' = [releaseSequences EXCEPT ![group[i]] = releaseSequences[group[i]] + 1]
      BY <1>6, <2>2 DEF MarkReleased
    <3>2. call' = [call EXCEPT ![i] = 0] \/ call' = [call EXCEPT ![i] = releaseSequences[group[i]] + 1]
      BY <1>6, <2>2 DEF MarkReleased
    <3>3. /\ \A g \in Groups : releaseSequences[g] <= releaseSequences'[g] /\ releaseSequences'[g] \in Nat
          /\ releaseSequences'[group[i]] = releaseSequences[group[i]] + 1
      BY <1>0, <2>2, <3>1
    <3>4. /\ call'[i] > 0 => call'[i] <= releaseSequences'[group[i]]
          /\ \A j \in Ids \ {i} : call'[j] = call[j] /\ owner'[j] = owner[j]
          /\ owner'[i] = "reporting"
      <4>1. /\ owner'[i] = "reporting" /\ \A j \in Ids \ {i} : owner'[j] = owner[j]
        BY <1>0, <2>1
      <4>2. \A j \in Ids \ {i} : call'[j] = call[j]
        BY <1>0, <3>2
      <4>3. call'[i] = 0 \/ call'[i] = releaseSequences[group[i]] + 1
        BY <1>0, <3>2
      <4>4. releaseSequences'[group[i]] \in Nat
        BY <2>2, <3>3
      <4> QED BY <3>3, <4>1, <4>2, <4>3, <4>4
    <3>5. ASSUME NEW j \in Ids, call'[j] > 0
          PROVE  owner'[j] \in Counted /\ group[j] \in Groups /\ call'[j] <= releaseSequences'[group[j]]
      <4>1. CASE j = i
        BY <2>2, <3>4, <3>5, <4>1
      <4>2. CASE j # i
        <5>1. /\ owner'[j] \in Counted /\ group[j] \in Groups /\ call'[j] = call[j]
              /\ call[j] <= releaseSequences[group[j]]
          BY <3>4, <3>5, <4>2 DEF Staged
        <5> QED BY <1>0, <3>3, <5>1
      <4> QED BY <4>1, <4>2
    <3> QED BY <2>1, <3>4, <3>5 DEF Staged
  <2>3. CASE group[i] \notin Groups
    <3>1. UNCHANGED <<call, releaseSequences>>
      BY <1>6, <2>3 DEF MarkReleased
    <3> QED BY <1>0, <2>1, <3>1 DEF Staged
  <2> QED BY <2>2, <2>3
<1>7. ASSUME NEW i \in Ids, ReleaseSinkCall(i) \/ DeleteScope(i) PROVE Staged'
  <2>1. UNCHANGED <<group, call, resource, releaseSequences>>
    BY <1>7 DEF ReleaseSinkCall, DeleteScope, scopeVars
  <2>2. owner[i] \in {"reporting", "reported"} /\ \E to \in {"reported", "gone"} : owner' = [owner EXCEPT ![i] = to]
    BY <1>7 DEF ReleaseSinkCall, DeleteScope
  <2> QED BY <1>0, <2>1, <2>2 DEF Staged
<1>8. CASE Others
  <2>1. \A j \in Ids : (Opened(j)' => Opened(j)) /\ (resource[j] = "none" => resource'[j] = "none")
    BY <1>8, ResourceSteps
  <2> QED BY <1>8, <2>1, OthersLeave DEF Staged
<1> QED BY <1>1, <1>2, <1>3, <1>4, <1>5, <1>6, <1>7, <1>8, NextCases

\* A release is counted by the step that takes its number.
LEMMA ReleasedFinite ==
  ASSUME NEW g
  PROVE  IsFiniteSet(Released(g)) /\ Released(g) \subseteq Ids
<1>1. IsFiniteSet(Ids)
  BY BoundAssumption, FS_Interval DEF Ids
<1>2. Released(g) \subseteq Ids
  BY DEF Released
<1> QED BY <1>1, <1>2, FS_Subset

LEMMA NumberedStep ==
  ASSUME TypeOK, Located, Staged, Numbered, [Next]_vars
  PROVE  Numbered'
<1> USE DEF Running, Counted, registryVars, barrierVars, sinkVars, flushVars
<1>0. /\ owner \in [Ids -> {"idle", "dispatching"} \cup Running \cup Counted] /\ next \in Nat
      /\ group \in [Ids -> Groups \cup {Unaccounted}] /\ releaseSequences \in [Groups -> Nat]
  BY DEF TypeOK, Sequences
<1>1. ASSUME \A g \in Groups : Released(g)' = Released(g), releaseSequences' = releaseSequences
      PROVE  Numbered'
  BY <1>1 DEF Numbered
<1>2. CASE BeginDispatch
  <2>1. owner[next + 1] = "idle" /\ owner' = [owner EXCEPT ![next + 1] = "dispatching"]
        /\ UNCHANGED <<group, releaseSequences>>
    BY <1>0, <1>2, BoundAssumption DEF BeginDispatch, Located, Ids
  <2>2. \A g \in Groups : Released(g)' = Released(g)
    BY <1>0, <2>1 DEF Released
  <2> QED BY <1>1, <2>1, <2>2
<1>3. ASSUME NEW i \in Ids, PendingEnd(i) PROVE Numbered'
  <2>1. owner[i] = "dispatching" /\ owner' = [owner EXCEPT ![i] = "gone"] /\ group[i] = Unaccounted
        /\ UNCHANGED <<group, releaseSequences>>
    BY <1>3 DEF PendingEnd, Staged
  <2>2. \A g \in Groups : Released(g)' = Released(g)
    BY <1>0, <2>1, GroupAssumption DEF Released
  <2> QED BY <1>1, <2>1, <2>2
<1>4. ASSUME NEW i \in Ids, NEW g \in Groups \cup {Unaccounted}, Install(i, g) PROVE Numbered'
  <2>1. owner[i] = "dispatching" /\ owner' = [owner EXCEPT ![i] = "installed"]
        /\ group' = [group EXCEPT ![i] = g] /\ UNCHANGED releaseSequences
    BY <1>4 DEF Install
  <2>2. \A o \in Groups : Released(o)' = Released(o)
    BY <1>0, <2>1 DEF Released
  <2> QED BY <1>1, <2>1, <2>2
<1>5. ASSUME NEW i \in Ids, Bind(i) \/ EndWithRelease(i) \/ ReleaseSinkCall(i) \/ DeleteScope(i)
      PROVE  Numbered'
  <2>1. UNCHANGED <<group, releaseSequences>>
    BY <1>5 DEF Bind, EndWithRelease, ReleaseSinkCall, DeleteScope, scopeVars
  <2>2. \/ owner[i] \in Running /\ \E to \in Running : owner' = [owner EXCEPT ![i] = to]
        \/ owner[i] \in Counted /\ \E to \in Counted : owner' = [owner EXCEPT ![i] = to]
    BY <1>5 DEF Bind, MayBind, EndWithRelease, ReleaseSinkCall, DeleteScope
  <2>3. \A g \in Groups : Released(g)' = Released(g)
    BY <1>0, <2>1, <2>2 DEF Released
  <2> QED BY <1>1, <2>1, <2>3
<1>6. ASSUME NEW i \in Ids, MarkReleased(i) PROVE Numbered'
  <2>1. owner[i] = "waiting" /\ owner' = [owner EXCEPT ![i] = "reporting"] /\ group' = group
    BY <1>6 DEF MarkReleased
  <2>2. CASE group[i] \in Groups
    <3>1. releaseSequences' = [releaseSequences EXCEPT ![group[i]] = releaseSequences[group[i]] + 1]
      BY <1>6, <2>2 DEF MarkReleased
    <3>2. ASSUME NEW g \in Groups
          PROVE  releaseSequences'[g] = Cardinality(Released(g)')
      <4>1. releaseSequences[g] = Cardinality(Released(g)) /\ IsFiniteSet(Released(g))
        BY ReleasedFinite DEF Numbered
      <4>2. CASE g = group[i]
        <5>1. i \notin Released(g) /\ Released(g)' = Released(g) \cup {i}
          BY <1>0, <2>1, <4>2 DEF Released
        <5>2. Cardinality(Released(g) \cup {i}) = Cardinality(Released(g)) + 1
          BY <4>1, <5>1, FS_AddElement
        <5> QED BY <1>0, <3>1, <4>1, <4>2, <5>1, <5>2
      <4>3. CASE g # group[i]
        <5>1. Released(g)' = Released(g)
          BY <1>0, <2>1, <4>3 DEF Released
        <5> QED BY <1>0, <3>1, <4>1, <4>3, <5>1
      <4> QED BY <4>2, <4>3
    <3> QED BY <3>2 DEF Numbered
  <2>3. CASE group[i] \notin Groups
    <3>1. UNCHANGED releaseSequences
      BY <1>6, <2>3 DEF MarkReleased
    <3>2. \A g \in Groups : Released(g)' = Released(g)
      BY <1>0, <2>1, <2>3 DEF Released
    <3> QED BY <1>1, <3>1, <3>2
  <2> QED BY <2>2, <2>3
<1>7. CASE Others
  BY <1>1, <1>7, OthersLeave DEF Released
<1> QED BY <1>2, <1>3, <1>4, <1>5, <1>6, <1>7, NextCases

\* What the flusher and Home know of a group's releases.
Bounded(g) == /\ home[g] <= releaseSequences[g] /\ replay[g] <= releaseSequences[g]
              /\ acked[g] <= latest[g] /\ flushing[g] <= latest[g] /\ latest[g] <= releaseSequences[g]
Reporting(g) == \E i \in Ids : owner[i] = "reporting" /\ group[i] = g /\ call[i] = releaseSequences[g]
Reported(g) == latest[g] = releaseSequences[g] \/ replay[g] = releaseSequences[g] \/ Reporting(g)

LEMMA KnownIs == Known <=> \A g \in Groups : Bounded(g) /\ (releaseSink => Reported(g))
BY DEF Known, Bounded, Reporting, Reported

\* The flusher has heard of a release, and what it knew before it still knows.
LEMMA Hears ==
  ASSUME TypeOK, NEW g \in Groups, NEW n \in Nat, Bounded(g), n <= releaseSequences[g],
         latest' = MarkDirty(g, n), UNCHANGED <<acked, flushing, home, releaseSequences>>
  PROVE  /\ acked'[g] <= latest'[g] /\ flushing'[g] <= latest'[g] /\ latest'[g] <= releaseSequences'[g]
         /\ latest[g] = releaseSequences[g] => latest'[g] = releaseSequences'[g]
         /\ n = releaseSequences[g] => latest'[g] = releaseSequences'[g]
         /\ \A o \in Groups \ {g} : latest'[o] = latest[o]
<1>1. /\ latest[g] \in Nat /\ acked[g] \in Nat /\ flushing[g] \in Nat /\ releaseSequences[g] \in Nat
      /\ latest'[g] = IF n <= acked[g] THEN latest[g] ELSE Larger(latest[g], n)
      /\ \A o \in Groups \ {g} : latest'[o] = latest[o]
  BY MarkDirtyType, SMTT(30) DEF TypeOK
<1>2. latest'[g] \in {latest[g], n} /\ latest'[g] >= latest[g] /\ (n > acked[g] => latest'[g] >= n)
  BY <1>1 DEF Larger
<1> QED BY <1>1, <1>2 DEF Bounded

LEMMA KnownStep ==
  ASSUME TypeOK, Located, Staged, Known, [Next]_vars
  PROVE  Known'
<1> USE DEF registryVars, barrierVars, scopeVars, sinkVars, flushVars
<1>0. /\ owner \in [Ids -> {"idle", "dispatching"} \cup Running \cup Counted] /\ next \in Nat
      /\ call \in [Ids -> Nat] /\ group \in [Ids -> Groups \cup {Unaccounted}]
      /\ releaseSequences \in [Groups -> Nat] /\ replay \in [Groups -> Nat] /\ latest \in [Groups -> Nat]
      /\ acked \in [Groups -> Nat] /\ flushing \in [Groups -> Nat] /\ home \in [Groups -> Nat]
  BY DEF TypeOK, Sequences
<1>k. \A g \in Groups : Bounded(g) /\ (releaseSink => Reported(g))
  BY KnownIs
<1>1. ASSUME UNCHANGED <<releaseSequences, releaseSink, replay, flushVars>>,
             \A i \in Ids : owner[i] = "reporting" =>
               owner'[i] = "reporting" /\ group'[i] = group[i] /\ call'[i] = call[i]
      PROVE  Known'
  <2>1. \A g \in Groups : Reporting(g) => Reporting(g)'
    BY <1>1 DEF Reporting
  <2> QED BY <1>1, <1>k, <2>1, KnownIs DEF Known, Bounded, Reported, Reporting
<1>2. CASE BeginDispatch
  <2>1. owner[next + 1] = "idle" /\ owner' = [owner EXCEPT ![next + 1] = "dispatching"]
    BY <1>0, <1>2, BoundAssumption DEF BeginDispatch, Located, Ids
  <2> QED BY <1>0, <1>1, <1>2, <2>1 DEF BeginDispatch
<1>3. ASSUME NEW i \in Ids,
             \/ PendingEnd(i) \/ Bind(i) \/ EndWithRelease(i) \/ DeleteScope(i)
             \/ \E g \in Groups \cup {Unaccounted} : Install(i, g)
      PROVE  Known'
  <2>1. UNCHANGED <<releaseSequences, releaseSink, replay, flushVars, call>>
    BY <1>3 DEF PendingEnd, Bind, EndWithRelease, DeleteScope, Install
  <2>2. owner[i] # "reporting" /\ \A j \in Ids \ {i} : owner'[j] = owner[j] /\ group'[j] = group[j]
    BY <1>0, <1>3 DEF PendingEnd, Bind, MayBind, EndWithRelease, DeleteScope, Install
  <2> QED BY <1>0, <1>1, <2>1, <2>2
<1>4. ASSUME NEW i \in Ids, MarkReleased(i) PROVE Known'
  <2>1. /\ owner' = [owner EXCEPT ![i] = "reporting"] /\ group' = group /\ owner[i] = "waiting"
        /\ UNCHANGED <<releaseSink, replay, flushVars>>
    BY <1>4 DEF MarkReleased
  <2>2. CASE group[i] \notin Groups
    <3>1. UNCHANGED <<releaseSequences, call>>
      BY <1>4, <2>2 DEF MarkReleased
    <3> QED BY <1>0, <1>1, <2>1, <3>1
  <2>3. CASE group[i] \in Groups
    <3>1. /\ releaseSequences' = [releaseSequences EXCEPT ![group[i]] = releaseSequences[group[i]] + 1]
          /\ releaseSink => call' = [call EXCEPT ![i] = releaseSequences[group[i]] + 1]
      BY <1>4, <2>3 DEF MarkReleased
    <3>2. \A g \in Groups : releaseSequences[g] <= releaseSequences'[g] /\ releaseSequences'[g] \in Nat
      BY <1>0, <2>3, <3>1
    <3>3. \A g \in Groups : Bounded(g)'
      BY <1>0, <1>k, <2>1, <3>2 DEF Bounded
    <3>4. ASSUME NEW g \in Groups, releaseSink PROVE Reported(g)'
      <4>1. CASE g = group[i]
        <5>1. owner'[i] = "reporting" /\ group'[i] = g /\ call'[i] = releaseSequences'[g]
          BY <1>0, <2>1, <3>1, <3>4, <4>1
        <5> QED BY <5>1 DEF Reported, Reporting
      <4>2. CASE g # group[i]
        <5>1. releaseSequences'[g] = releaseSequences[g]
          BY <1>0, <3>1, <4>2
        <5>2. Reporting(g) => Reporting(g)'
          <6>1. \A j \in Ids : group[j] = g => j # i
            BY <4>2
          <6>2. \A j \in Ids \ {i} : owner'[j] = owner[j] /\ call'[j] = call[j]
            BY <1>0, <2>1, <3>1, <3>4
          <6> QED BY <2>1, <5>1, <6>1, <6>2 DEF Reporting
        <5> QED BY <1>k, <2>1, <3>4, <5>1, <5>2 DEF Reported
      <4> QED BY <4>1, <4>2
    <3> QED BY <2>1, <3>3, <3>4 DEF Known, Bounded, Reported, Reporting
  <2> QED BY <2>2, <2>3
<1>5. ASSUME NEW i \in Ids, ReleaseSinkCall(i) PROVE Known'
  <2>1. /\ owner' = [owner EXCEPT ![i] = "reported"]
        /\ UNCHANGED <<group, call, releaseSequences, releaseSink, replay, acked, flushing, home>>
    BY <1>5 DEF ReleaseSinkCall
  <2>2. \A j \in Ids \ {i} : owner'[j] = owner[j]
    BY <1>0, <2>1
  <2>4. CASE call[i] > 0
    <3> DEFINE h == group[i]
    <3>1. h \in Groups /\ call[i] \in Nat /\ call[i] <= releaseSequences[h] /\ latest' = MarkDirty(h, call[i])
      BY <1>0, <1>5, <2>4 DEF Staged, ReleaseSinkCall
    <3>2. /\ acked'[h] <= latest'[h] /\ flushing'[h] <= latest'[h] /\ latest'[h] <= releaseSequences'[h]
          /\ latest[h] = releaseSequences[h] => latest'[h] = releaseSequences'[h]
          /\ call[i] = releaseSequences[h] => latest'[h] = releaseSequences'[h]
          /\ \A o \in Groups \ {h} : latest'[o] = latest[o]
      BY <1>k, <2>1, <3>1, Hears
    <3>3. \A g \in Groups : Bounded(g)'
      BY <1>k, <2>1, <3>1, <3>2 DEF Bounded
    <3>4. ASSUME NEW g \in Groups, releaseSink PROVE Reported(g)'
      <4>1. CASE latest[g] = releaseSequences[g] \/ replay[g] = releaseSequences[g]
        BY <2>1, <3>2, <4>1 DEF Reported
      <4>2. CASE Reporting(g)
        <5>1. PICK j \in Ids : owner[j] = "reporting" /\ group[j] = g /\ call[j] = releaseSequences[g]
          BY <4>2 DEF Reporting
        <5>2. CASE j = i
          BY <2>1, <3>2, <5>1, <5>2 DEF Reported
        <5>3. CASE j # i
          BY <2>1, <2>2, <5>1, <5>3 DEF Reported, Reporting
        <5> QED BY <5>2, <5>3
      <4> QED BY <1>k, <3>4, <4>1, <4>2 DEF Reported
    <3> QED BY <2>1, <3>3, <3>4 DEF Known, Bounded, Reported, Reporting
  <2>5. CASE ~(call[i] > 0)
    <3>1. call[i] = 0 /\ latest' = latest
      BY <1>0, <1>5, <2>5 DEF ReleaseSinkCall
    <3>2. ASSUME NEW g \in Groups, Reporting(g) PROVE Reported(g)'
      <4>1. PICK j \in Ids : owner[j] = "reporting" /\ group[j] = g /\ call[j] = releaseSequences[g]
        BY <3>2 DEF Reporting
      <4>2. CASE j = i
        <5>1. latest[g] \in Nat /\ latest[g] <= 0
          BY <1>0, <1>k, <3>1, <4>1, <4>2 DEF Bounded
        <5>2. latest'[g] = releaseSequences'[g]
          BY <2>1, <3>1, <4>1, <4>2, <5>1
        <5> QED BY <5>2 DEF Reported
      <4>3. CASE j # i
        BY <2>1, <2>2, <4>1, <4>3 DEF Reported, Reporting
      <4> QED BY <4>2, <4>3
    <3> QED BY <1>k, <2>1, <3>1, <3>2 DEF Known, Bounded, Reported, Reporting
  <2> QED BY <2>4, <2>5
<1>6. ASSUME NEW on \in BOOLEAN, SetReleaseSink(on) PROVE Known'
  <2>1. /\ UNCHANGED <<releaseSequences, owner, group, call, latest, acked, flushing, home>>
        /\ on => \A g \in Groups : replay'[g] = releaseSequences[g]
        /\ ~on => replay' = replay
        /\ releaseSink' = on
    BY <1>6 DEF SetReleaseSink
  <2>2. \A g \in Groups : Bounded(g)' /\ (releaseSink' => replay'[g] = releaseSequences'[g])
    BY <1>0, <1>k, <2>1 DEF Bounded
  <2> QED BY <2>2 DEF Known, Bounded
<1>7. ASSUME NEW h \in Groups, ReplayCall(h) PROVE Known'
  <2>1. /\ UNCHANGED <<releaseSequences, releaseSink, owner, group, call, acked, flushing, home>>
        /\ latest' = MarkDirty(h, replay[h]) /\ replay[h] > 0 /\ replay[h] \in Nat
        /\ replay'[h] = 0 /\ \A o \in Groups \ {h} : replay'[o] = replay[o]
    BY <1>0, <1>7 DEF ReplayCall
  <2>2. Bounded(h) /\ replay[h] <= releaseSequences[h]
    BY <1>k DEF Bounded
  <2>3. /\ acked'[h] <= latest'[h] /\ flushing'[h] <= latest'[h] /\ latest'[h] <= releaseSequences'[h]
        /\ latest[h] = releaseSequences[h] => latest'[h] = releaseSequences'[h]
        /\ replay[h] = releaseSequences[h] => latest'[h] = releaseSequences'[h]
        /\ \A o \in Groups \ {h} : latest'[o] = latest[o]
    BY <2>1, <2>2, Hears
  <2>4. \A g \in Groups : Bounded(g)'
    BY <1>0, <1>k, <2>1, <2>3 DEF Bounded
  <2>5. ASSUME NEW g \in Groups, releaseSink PROVE Reported(g)'
    <3>1. Reporting(g) => Reporting(g)'
      BY <2>1 DEF Reporting
    <3>2. CASE g = h
      BY <1>k, <2>1, <2>3, <2>5, <3>1, <3>2 DEF Reported
    <3>3. CASE g # h
      BY <1>k, <2>1, <2>3, <2>5, <3>1, <3>3 DEF Reported
    <3> QED BY <3>2, <3>3
  <2> QED BY <2>1, <2>4, <2>5 DEF Known, Bounded, Reported, Reporting
<1>8. ASSUME UNCHANGED <<releaseSequences, releaseSink, replay, latest, owner, group, call>>,
             \A g \in Groups : /\ acked'[g] <= latest[g] /\ flushing'[g] <= latest[g]
                               /\ home'[g] <= releaseSequences[g]
      PROVE  Known'
  <2>1. \A g \in Groups : Bounded(g)' /\ (releaseSink' => Reported(g)')
    BY <1>8, <1>k DEF Bounded, Reported, Reporting
  <2> QED BY <2>1 DEF Known, Bounded, Reported, Reporting
<1>9. CASE Flush
  <2>1. CASE FlushBegin
    <3>1. \A g \in Groups : flushing'[g] <= latest[g]
      BY <1>0, <2>1 DEF FlushBegin
    <3> QED BY <1>8, <1>k, <2>1, <3>1 DEF FlushBegin, Bounded
  <2>2. ASSUME NEW h \in Groups, SendAcknowledged(h) \/ SendFailed(h) PROVE Known'
    <3>1. /\ flushing[h] <= latest[h] /\ flushing[h] <= releaseSequences[h]
          /\ Larger(acked[h], flushing[h]) <= latest[h]
          /\ Larger(home[h], flushing[h]) <= releaseSequences[h]
      BY <1>0, <1>k DEF Bounded, Larger
    <3>2. /\ flushing' = [flushing EXCEPT ![h] = 0]
          /\ UNCHANGED <<releaseSequences, releaseSink, replay, latest, owner, group, call>>
      BY <2>2 DEF SendAcknowledged, SendFailed, Sent
    <3>3. acked' = acked \/ acked' = [acked EXCEPT ![h] = Larger(acked[h], flushing[h])]
      BY <2>2 DEF SendAcknowledged, SendFailed
    <3>4. home' = home \/ home' = [home EXCEPT ![h] = Larger(home[h], flushing[h])]
      BY <2>2 DEF SendAcknowledged, SendFailed
    <3>5. \A g \in Groups : acked'[g] <= latest[g]
      BY <1>0, <1>k, <3>1, <3>3 DEF Bounded
    <3>6. \A g \in Groups : home'[g] <= releaseSequences[g]
      BY <1>0, <1>k, <3>1, <3>4 DEF Bounded
    <3>7. \A g \in Groups : flushing'[g] <= latest[g]
      BY <1>0, <1>k, <3>2 DEF Bounded
    <3> QED BY <1>8, <3>2, <3>5, <3>6, <3>7
  <2> QED BY <1>9, <2>1, <2>2 DEF Flush
<1>10. CASE Drain \/ Close \/ Barrier \/ UNCHANGED vars \/ \E i \in Ids : CloseResource(i)
  <2>1. Others
    BY <1>10 DEF Others
  <2>2. UNCHANGED <<releaseSink, replay, latest, acked, flushing, home>>
    BY <1>10 DEF vars, Drain, DrainBegin, DrainList, DrainWait, DrainDone, DrainExpired, DrainCancel,
         Close, CloseBegin, CloseList, CloseDone, CloseStart, CloseWaited,
         Barrier, FreezeInFlight, ObserveBarrier, CloseResource
  <2> QED BY <1>8, <1>k, <2>1, <2>2, OthersLeave DEF Bounded
<1> QED BY <1>2, <1>3, <1>4, <1>5, <1>6, <1>7, <1>9, <1>10, NextCases DEF Others, Sink
\* What drain and close find open is open no more when they have waited for it.
LEMMA StoppedStep ==
  ASSUME TypeOK, Located, Staged, Stopped, [Next]_vars
  PROVE  Stopped'
<1> USE DEF registryVars, barrierVars, scopeVars, sinkVars, flushVars
<1>0. /\ drain \in [at : {"idle", "listing", "cancelling", "waiting", "done", "expired"}, list : SUBSET Ids]
      /\ closer \in [at : {"idle", "listing", "closing", "done"}, list : SUBSET Ids, scope : Ids \cup {0}]
      /\ resource \in [Ids -> {"none", "bound", "closing", "closed"}]
  BY DEF TypeOK
<1>1. ASSUME UNCHANGED <<state, drain, closer>>, Emptied => Emptied',
             \A j \in Ids : Opened(j)' => Opened(j)
      PROVE  Stopped'
  BY <1>1 DEF Stopped, Opened
<1>2. CASE BeginDispatch
  BY <1>0, <1>2 DEF BeginDispatch, Accepting, Stopped
<1>3. ASSUME NEW i \in Ids, PendingEnd(i) \/ DeleteScope(i) \/ MarkReleased(i) \/ ReleaseSinkCall(i)
      PROVE  Stopped'
  <2>1. UNCHANGED <<state, drain, closer, resource>> /\ pending' \subseteq pending /\ scopes' \subseteq scopes
    BY <1>3 DEF PendingEnd, DeleteScope, MarkReleased, ReleaseSinkCall
  <2> QED BY <1>1, <2>1 DEF Emptied, Opened
<1>4. ASSUME NEW i \in Ids, NEW g \in Groups \cup {Unaccounted}, Install(i, g) PROVE Stopped'
  BY <1>0, <1>4 DEF Install, Stopped
<1>5. ASSUME NEW i \in Ids, Bind(i) PROVE Stopped'
  BY <1>0, <1>5 DEF Bind, MayBind, Stopped
<1>6. ASSUME NEW i \in Ids, EndWithRelease(i) PROVE Stopped'
  <2>1. UNCHANGED <<state, drain, closer, pending, scopes>>
    BY <1>6 DEF EndWithRelease
  <2>2. \A j \in Ids : Opened(j)' => Opened(j)
    BY <1>6, ResourceSteps
  <2> QED BY <1>1, <2>1, <2>2 DEF Emptied
<1>7. CASE Others
  <2>1. UNCHANGED <<pending, scopes>> /\ \A j \in Ids : Opened(j)' => Opened(j)
    BY <1>7, OthersLeave, ResourceSteps
  <2>2. CASE UNCHANGED <<state, drain, closer>>
    BY <1>1, <2>1, <2>2 DEF Emptied
  <2>3. CASE Sink \/ Barrier \/ Flush \/ UNCHANGED vars \/ \E i \in Ids : CloseResource(i)
    <3>1. UNCHANGED <<state, drain, closer>>
      BY <2>3 DEF vars, Sink, SetReleaseSink, ReplayCall, Barrier, FreezeInFlight, ObserveBarrier,
                  Flush, FlushBegin, SendAcknowledged, SendFailed, CloseResource
    <3> QED BY <2>2, <3>1
  <2>4. CASE Drain
    <3>1. closer' = closer
      BY <2>4 DEF Drain, DrainBegin, DrainList, DrainWait, DrainDone, DrainExpired, DrainCancel
    <3>2. drain'.at # "idle" => state' # "accepting"
      <4>1. CASE DrainBegin
        BY <4>1 DEF DrainBegin
      <4>2. CASE DrainDone
        BY <4>2 DEF DrainDone
      <4>3. CASE DrainList \/ DrainWait \/ DrainExpired \/ \E i \in Ids : DrainCancel(i)
        <5>1. drain.at # "idle" /\ state' = state
          BY <4>3 DEF DrainList, DrainWait, DrainExpired, DrainCancel
        <5> QED BY <5>1 DEF Stopped
      <4> QED BY <2>4, <4>1, <4>2, <4>3 DEF Drain
    <3>3. state # "accepting" => state' # "accepting"
      BY <2>4 DEF Drain, DrainBegin, DrainList, DrainWait, DrainDone, DrainExpired, DrainCancel
    <3>4. drain'.at = "done" => Emptied
      BY <1>0, <2>4 DEF Drain, DrainBegin, DrainList, DrainListAll, DrainWait, DrainDone, DrainExpired, DrainCancel
    <3> QED BY <2>1, <3>1, <3>2, <3>3, <3>4 DEF Stopped, Emptied, Opened
  <2>5. CASE Close
    <3>1. drain' = drain
      BY <2>5 DEF Close, CloseBegin, CloseList, CloseDone, CloseStart, CloseWaited
    <3>2. state # "accepting" => state' # "accepting"
      BY <2>5 DEF Close, CloseBegin, CloseList, CloseDone, CloseStart, CloseWaited
    <3>3. CASE CloseBegin
      BY <1>0, <2>1, <3>1, <3>2, <3>3 DEF CloseBegin, Stopped, Emptied
    <3>4. CASE CloseList
      <4>1. state' = state /\ closer'.at = "closing" /\ closer'.list = scopes /\ closer.at = "listing"
        BY <1>0, <3>4 DEF CloseList
      <4>2. \A j \in Ids : Opened(j) => j \in scopes
        BY DEF Staged, Located, Kept, Running, Opened
      <4> QED BY <2>1, <3>1, <4>1, <4>2 DEF Stopped, Emptied, Opened
    <3>5. ASSUME NEW i \in Ids, CloseStart(i) PROVE Stopped'
      <4>1. state' = state /\ closer'.at = "closing" /\ closer.at = "closing" /\ closer'.list = closer.list
        BY <1>0, <3>5 DEF CloseStart
      <4> QED BY <2>1, <3>1, <4>1 DEF Stopped, Emptied, Opened
    <3>6. ASSUME NEW i \in Ids, CloseWaited(i) PROVE Stopped'
      <4>1. /\ state' = state /\ closer.at = "closing" /\ closer'.at = "closing"
            /\ closer'.list = closer.list \ {i} /\ ~Opened(i)
        BY <1>0, <3>6 DEF CloseWaited, AwaitedClose, Opened
      <4>2. \A j \in Ids : Opened(j) => j \in closer.list \ {i}
        BY <4>1 DEF Stopped, Opened
      <4> QED BY <2>1, <3>1, <4>1, <4>2 DEF Stopped, Emptied, Opened
    <3>7. CASE CloseDone
      <4>1. state' = state /\ closer'.at = "done" /\ closer'.list = closer.list /\ closer.list = {} /\ closer.at = "closing"
        BY <1>0, <3>7 DEF CloseDone
      <4> QED BY <2>1, <3>1, <4>1 DEF Stopped, Emptied, Opened
    <3> QED BY <2>5, <3>3, <3>4, <3>5, <3>6, <3>7 DEF Close
  <2> QED BY <1>7, <2>3, <2>4, <2>5 DEF Others
<1> QED BY <1>2, <1>3, <1>4, <1>5, <1>6, <1>7, NextCases

\* A barrier is published once nothing that was begun before it is pending.
LEMMA CoveredStep ==
  ASSUME TypeOK, Covered, BarrierCovers, [Next]_vars
  PROVE  Covered' /\ BarrierCovers'
<1> USE DEF registryVars, barrierVars, scopeVars, sinkVars, flushVars
<1>0. /\ next \in Nat /\ pending \subseteq Ids /\ begunAt \in [0..MaxBarrier -> Nat]
      /\ observedBarrier \in Nat /\ publishedBarrier \in Nat /\ pendingBarrierSequence \in Nat
  BY BoundAssumption DEF TypeOK, Sequences
<1>1. ASSUME UNCHANGED barrierVars, next' = next, pending' \subseteq pending
      PROVE  Covered' /\ BarrierCovers'
  BY <1>1 DEF Covered, BarrierCovers
<1>2. CASE BeginDispatch
  <2>1. UNCHANGED barrierVars /\ next' = next + 1 /\ pending' = pending \cup {next + 1}
    BY <1>2 DEF BeginDispatch
  <2>2. \A b \in 1..MaxBarrier : next + 1 > begunAt[b]
    <3>1. \A b \in 1..MaxBarrier : begunAt[b] \in Nat /\ begunAt[b] <= pendingBarrierSequence
      BY <1>0, BoundAssumption DEF Covered
    <3> QED BY <1>0, <3>1 DEF Covered
  <2>3. pendingBarrierSequence <= next + 1
    BY <1>0 DEF Covered
  <2> QED BY <2>1, <2>2, <2>3 DEF Covered, BarrierCovers
<1>3. ASSUME NEW i \in Ids, PendingEnd(i) \/ DeleteScope(i) \/ Bind(i) \/ EndWithRelease(i)
             \/ MarkReleased(i) \/ ReleaseSinkCall(i) \/ \E g \in Groups \cup {Unaccounted} : Install(i, g)
      PROVE  Covered' /\ BarrierCovers'
  BY <1>1, <1>3 DEF PendingEnd, DeleteScope, Bind, EndWithRelease, MarkReleased, ReleaseSinkCall, Install
<1>4. ASSUME NEW b \in 1..MaxBarrier, ObserveBarrier(b) PROVE Covered' /\ BarrierCovers'
  <2>1. /\ b > observedBarrier /\ observedBarrier' = b /\ pendingBarrierSequence' = next
        /\ begunAt' = [begunAt EXCEPT ![b] = next] /\ UNCHANGED <<next, pending, publishedBarrier>>
    BY <1>4 DEF ObserveBarrier, PendingSequenceAt
  <2>2. b \in Nat /\ b > publishedBarrier
    BY <1>0, <2>1 DEF Covered
  <2>3. \A c \in 0..MaxBarrier : begunAt'[c] = IF c = b THEN next ELSE begunAt[c]
    BY <1>0, <2>1
  <2>4. \A c \in 0..MaxBarrier : begunAt[c] \in Nat /\ begunAt[c] <= next
    <3>1. \A c \in 0..MaxBarrier : begunAt[c] \in Nat /\ begunAt[c] <= pendingBarrierSequence
      BY <1>0 DEF Covered
    <3> QED BY <1>0, <3>1 DEF Covered
  <2>5. Covered'
    BY <1>0, <2>1, <2>2, <2>3, <2>4 DEF Covered
  <2>6. \A c \in 1..MaxBarrier : c <= publishedBarrier => begunAt'[c] = begunAt[c]
    BY <1>0, <2>2, <2>3
  <2> QED BY <2>1, <2>5, <2>6 DEF BarrierCovers
<1>5. CASE FreezeInFlight
  <2>1. /\ \A i \in pending : i > pendingBarrierSequence
        /\ publishedBarrier' = observedBarrier
        /\ UNCHANGED <<next, pending, observedBarrier, pendingBarrierSequence, begunAt>>
    BY <1>5 DEF FreezeInFlight
  <2>2. ASSUME NEW b \in 1..MaxBarrier, NEW i \in pending PROVE i > begunAt[b]
    <3>1. begunAt[b] \in Nat /\ begunAt[b] <= pendingBarrierSequence /\ i > pendingBarrierSequence /\ i \in Nat
      BY <1>0, <2>1, BoundAssumption DEF Covered, Ids
    <3> QED BY <1>0, <3>1
  <2> QED BY <1>0, <2>1, <2>2 DEF Covered, BarrierCovers
<1>6. CASE Drain \/ Close \/ Sink \/ Flush \/ UNCHANGED vars \/ \E i \in Ids : CloseResource(i)
  <2>1. Others
    BY <1>6 DEF Others
  <2>2. UNCHANGED barrierVars
    BY <1>6 DEF vars, Drain, DrainBegin, DrainList, DrainWait, DrainDone, DrainExpired, DrainCancel,
         Close, CloseBegin, CloseList, CloseDone, CloseStart, CloseWaited, CloseResource,
         Sink, SetReleaseSink, ReplayCall, Flush, FlushBegin, SendAcknowledged, SendFailed
  <2> QED BY <1>1, <2>1, <2>2, OthersLeave
<1> QED BY <1>2, <1>3, <1>4, <1>5, <1>6, NextCases DEF Others, Barrier
-----------------------------------------------------------------------------
LEMMA InitInv == Init => TypeOK /\ RegistryInv
<1> SUFFICES ASSUME Init PROVE TypeOK /\ RegistryInv
  OBVIOUS
<1> USE BoundAssumption DEF Init
<1>1. TypeOK
  BY DEF TypeOK, Sequences
<1>2. Located /\ Staged
  BY DEF Located, Staged, Kept, Running, Counted
<1>3. Numbered
  <2>1. \A g \in Groups : Released(g) = {}
    BY DEF Released, Counted
  <2> QED BY <2>1, FS_EmptySet DEF Numbered
<1>4. Known
  BY DEF Known
<1>5. Stopped
  BY DEF Stopped
<1>6. Covered /\ BarrierCovers
  BY DEF Covered, BarrierCovers
<1> QED BY <1>1, <1>2, <1>3, <1>4, <1>5, <1>6 DEF RegistryInv

\* The registry's invariant: where the owner of a dispatch is tells where the
\* registry has it, sequences count releases, the flusher misses none of them
\* for good, drain and close watch everything open, barriers cover what is old.
THEOREM RegistryInvariant == Spec => [](TypeOK /\ RegistryInv)
<1>1. Init => TypeOK /\ RegistryInv
  BY InitInv
<1>2. (TypeOK /\ RegistryInv) /\ [Next]_vars => (TypeOK /\ RegistryInv)'
  BY TypeStep, LocatedStep, StagedStep, NumberedStep, KnownStep, StoppedStep, CoveredStep DEF RegistryInv
<1> QED BY <1>1, <1>2, PTL DEF Spec

\* Every variable of the registry, the flusher and Home keeps its type.
THEOREM RegistryTypes == Spec => []TypeOK
BY RegistryInvariant, PTL

\* A published barrier covers every dispatch begun before it was observed.
THEOREM BarriersCover == Spec => []BarrierCovers
<1>1. RegistryInv => BarrierCovers
  BY DEF RegistryInv
<1> QED BY <1>1, RegistryInvariant, PTL

\* A drain that succeeded or a close that returned leaves no resource open.
THEOREM DrainLeavesNothing == Spec => []NothingLeftOpen
<1>1. TypeOK /\ RegistryInv => NothingLeftOpen
  <2> SUFFICES ASSUME TypeOK, RegistryInv PROVE NothingLeftOpen
    OBVIOUS
  <2>1. drain.at = "done" => Emptied
    BY DEF RegistryInv, Stopped
  <2>2. ASSUME drain.at = "done", NEW i \in Ids PROVE resource[i] \notin {"bound", "closing"}
    BY <2>1, <2>2 DEF RegistryInv, Emptied, Located, Staged, Kept, Running
  <2>3. ASSUME closer.at = "done", NEW i \in Ids PROVE resource[i] \notin {"bound", "closing"}
    <3>1. closer.list = {}
      BY <2>3 DEF RegistryInv, Stopped
    <3> QED BY <2>3, <3>1 DEF RegistryInv, Stopped
  <2> QED BY <2>1, <2>2, <2>3 DEF NothingLeftOpen
<1> QED BY <1>1, RegistryInvariant, PTL

\* Home is told of a free slot only after the resource of its execution closed.
THEOREM SlotsFreedInTime == Spec => []SlotsNotFreedEarly
<1>1. TypeOK /\ RegistryInv => SlotsNotFreedEarly
  <2> SUFFICES ASSUME TypeOK, RegistryInv, NEW g \in Groups PROVE home[g] <= Cardinality(Freed(g))
    BY DEF SlotsNotFreedEarly
  <2>1. \A i \in Ids : owner[i] \in Counted => resource[i] \in {"none", "closed"}
    <3>1. resource \in [Ids -> {"none", "bound", "closing", "closed"}]
      BY DEF TypeOK
    <3> QED BY <3>1 DEF RegistryInv, Staged, Counted
  <2>2. Freed(g) = Released(g)
    BY <2>1 DEF Freed, Released
  <2> QED BY <2>2 DEF RegistryInv, Known, Numbered
<1> QED BY <1>1, RegistryInvariant, PTL

\* With the sink attached and no scope left, the flusher knows every release.
THEOREM ReleasesReported == Spec => []EveryReleaseReported
<1>1. TypeOK /\ RegistryInv => EveryReleaseReported
  <2> SUFFICES ASSUME TypeOK, RegistryInv, scopes = {}, releaseSink, \A g \in Groups : replay[g] = 0
      PROVE  latest = releaseSequences
    BY DEF EveryReleaseReported
  <2>0. latest \in [Groups -> Nat] /\ releaseSequences \in [Groups -> Nat]
    BY DEF TypeOK
  <2>1. \A i \in Ids : owner[i] # "reporting"
    BY DEF RegistryInv, Located, Kept
  <2>2. ASSUME NEW g \in Groups PROVE latest[g] = releaseSequences[g]
    <3>1. latest[g] = releaseSequences[g] \/ releaseSequences[g] = 0
      BY <2>1 DEF RegistryInv, Known
    <3>2. latest[g] <= releaseSequences[g] /\ latest[g] \in Nat /\ releaseSequences[g] \in Nat
      BY <2>0 DEF RegistryInv, Known
    <3> QED BY <3>1, <3>2
  <2> QED BY <2>0, <2>2
<1> QED BY <1>1, RegistryInvariant, PTL

-----------------------------------------------------------------------------
\* The ledger.

Open == pending \cup {i \in scopes : owner[i] \notin Counted}

LEMMA LedgerInit == Init => Ledger!Init
<1> SUFFICES ASSUME Init PROVE Ledger!Init
  OBVIOUS
<1>1. 1..next = {}
  BY DEF Init
<1> QED BY <1>1 DEF Init, Ledger!Init

\* A step that leaves alone what the ledger shows is a stutter of it.
LEMMA LedgerStutter ==
  ASSUME UNCHANGED <<next, Open, releaseSequences, home>>, (state # "accepting")' = (state # "accepting")
  PROVE  [Ledger!Next]_(Ledger!vars)
BY DEF Ledger!vars, Open

\* What an owner does to what is open.
LEMMA OpenIs ==
  ASSUME TypeOK, Located
  PROVE  Open = {i \in Ids : owner[i] \in {"dispatching"} \cup Running}
<1>1. owner \in [Ids -> {"idle", "dispatching"} \cup Running \cup Counted] /\ pending \subseteq Ids /\ scopes \subseteq Ids
  BY DEF TypeOK
<1> QED BY <1>1 DEF Open, Located, Kept, Running, Counted

LEMMA LedgerOwner ==
  ASSUME TypeOK, TypeOK', RegistryInv, Located', NEW i \in Ids,
         \/ PendingEnd(i) \/ \E g \in Groups \cup {Unaccounted} : Install(i, g)
         \/ Bind(i) \/ EndWithRelease(i) \/ MarkReleased(i) \/ ReleaseSinkCall(i) \/ DeleteScope(i)
  PROVE  [Ledger!Next]_(Ledger!vars)
<1> USE DEF registryVars, sinkVars, flushVars, RegistryInv
<1>0. /\ owner \in [Ids -> {"idle", "dispatching"} \cup Running \cup Counted]
      /\ Open = {j \in Ids : owner[j] \in {"dispatching"} \cup Running}
      /\ Open' = {j \in Ids : owner'[j] \in {"dispatching"} \cup Running}
  <2>1. owner \in [Ids -> {"idle", "dispatching"} \cup Running \cup Counted]
    BY DEF TypeOK
  <2>2. Open = {j \in Ids : owner[j] \in {"dispatching"} \cup Running}
    BY OpenIs
  <2>3. Open' = {j \in Ids : owner'[j] \in {"dispatching"} \cup Running}
    <3>1. owner' \in [Ids -> {"idle", "dispatching"} \cup Running \cup Counted] /\ pending' \subseteq Ids /\ scopes' \subseteq Ids
      BY DEF TypeOK
    <3> QED BY <3>1 DEF Open, Located, Kept, Running, Counted
  <2> QED BY <2>1, <2>2, <2>3
<1>1. UNCHANGED <<state, next, home>>
  BY DEF PendingEnd, Install, Bind, EndWithRelease, MarkReleased, ReleaseSinkCall, DeleteScope
<1>2. CASE PendingEnd(i)
  <2>1. owner[i] = "dispatching" /\ owner' = [owner EXCEPT ![i] = "gone"] /\ releaseSequences' = releaseSequences
    BY <1>2 DEF PendingEnd
  <2>2. i \in Open /\ Open' = Open \ {i}
    BY <1>0, <2>1 DEF Running
  <2>3. Ledger!Drop(i)
    BY <1>1, <2>1, <2>2 DEF Ledger!Drop, Open
  <2> QED BY <2>3 DEF Ledger!Next
<1>3. CASE \/ Bind(i) \/ EndWithRelease(i) \/ ReleaseSinkCall(i) \/ DeleteScope(i)
           \/ \E g \in Groups \cup {Unaccounted} : Install(i, g)
  <2>1. releaseSequences' = releaseSequences
    BY <1>3 DEF Install, Bind, EndWithRelease, ReleaseSinkCall, DeleteScope
  <2>2. Open' = Open
    <3>1. \E to \in Running \cup Counted : /\ owner' = [owner EXCEPT ![i] = to]
             /\ (owner[i] \in {"dispatching"} \cup Running <=> to \in Running)
      BY <1>3 DEF Install, Bind, MayBind, EndWithRelease, ReleaseSinkCall, DeleteScope, Running, Counted
    <3>2. \A j \in Ids : owner'[j] \in {"dispatching"} \cup Running <=> owner[j] \in {"dispatching"} \cup Running
      BY <1>0, <3>1 DEF Running, Counted
    <3> QED BY <1>0, <3>2
  <2> QED BY <1>1, <2>1, <2>2, LedgerStutter
<1>4. CASE MarkReleased(i)
  <2>1. owner[i] = "waiting" /\ owner' = [owner EXCEPT ![i] = "reporting"]
    BY <1>4 DEF MarkReleased
  <2>2. i \in Open /\ Open' = Open \ {i}
    BY <1>0, <2>1 DEF Running
  <2>3. CASE group[i] \in Groups
    <3>1. releaseSequences' = [releaseSequences EXCEPT ![group[i]] = releaseSequences[group[i]] + 1]
      BY <1>4, <2>3 DEF MarkReleased
    <3>2. PICK g \in Groups : g = group[i]
      BY <2>3
    <3>3. Ledger!Count(i, g)
      BY <1>1, <2>2, <3>1, <3>2 DEF Ledger!Count, Open
    <3> QED BY <3>3 DEF Ledger!Next
  <2>4. CASE group[i] \notin Groups
    <3>1. releaseSequences' = releaseSequences
      BY <1>4, <2>4 DEF MarkReleased
    <3>2. Ledger!Drop(i)
      BY <1>1, <2>2, <3>1 DEF Ledger!Drop, Open
    <3> QED BY <3>2 DEF Ledger!Next
  <2> QED BY <2>3, <2>4
<1> QED BY <1>2, <1>3, <1>4

LEMMA LedgerBegin ==
  ASSUME TypeOK, Located, BeginDispatch
  PROVE  [Ledger!Next]_(Ledger!vars)
<1>1. next \in Nat /\ next + 1 \in Ids
  BY BoundAssumption DEF TypeOK, Sequences, BeginDispatch, Ids
<1>2. /\ state = "accepting" /\ next' = next + 1 /\ pending' = pending \cup {next + 1}
      /\ owner' = [owner EXCEPT ![next + 1] = "dispatching"]
      /\ UNCHANGED <<state, scopes, releaseSequences, home>>
  BY DEF BeginDispatch, Accepting, sinkVars, flushVars
<1>3. 1..next' = (1..next) \cup {next + 1} /\ next + 1 \notin 1..next
  BY <1>1, <1>2
<1>4. Open' = Open \cup {next + 1}
  <2>1. next + 1 \notin scopes
    BY <1>1 DEF Located, Kept, Running
  <2>2. \A i \in scopes : owner'[i] = owner[i]
    <3>1. owner \in [Ids -> {"idle", "dispatching"} \cup Running \cup Counted] /\ scopes \subseteq Ids
      BY DEF TypeOK
    <3> QED BY <1>2, <2>1, <3>1
  <2> QED BY <1>2, <2>2 DEF Open
<1>5. PICK i \in Ids : i = next + 1
  BY <1>1
<1>6. Ledger!Begin(i)
  BY <1>2, <1>3, <1>4, <1>5 DEF Ledger!Begin, Open
<1> QED BY <1>6 DEF Ledger!Next

LEMMA LedgerOthers ==
  ASSUME TypeOK, RegistryInv, Others
  PROVE  [Ledger!Next]_(Ledger!vars)
<1> USE DEF registryVars, sinkVars, flushVars, RegistryInv
<1>0. UNCHANGED <<next, pending, scopes, owner, Open, releaseSequences>>
  BY OthersLeave DEF Open
<1>1. CASE UNCHANGED <<state, home>>
  BY <1>0, <1>1, LedgerStutter
<1>2. CASE Sink \/ Barrier \/ FlushBegin \/ UNCHANGED vars \/ \E i \in Ids : CloseResource(i)
  BY <1>1, <1>2 DEF vars, Sink, SetReleaseSink, ReplayCall, Barrier, FreezeInFlight, ObserveBarrier,
                    FlushBegin, CloseResource
<1>3. CASE Drain \/ Close
  <2>1. home' = home /\ (state # "accepting" => state' # "accepting")
    BY <1>3 DEF Drain, DrainBegin, DrainList, DrainWait, DrainDone, DrainExpired, DrainCancel,
                Close, CloseBegin, CloseList, CloseDone, CloseStart, CloseWaited
  <2>2. CASE state = "accepting" /\ state' # "accepting"
    BY <1>0, <2>1, <2>2 DEF Ledger!Next, Ledger!Shut, Open
  <2>3. CASE (state # "accepting")' = (state # "accepting")
    BY <1>0, <2>1, <2>3, LedgerStutter
  <2> QED BY <2>1, <2>2, <2>3
<1>4. ASSUME NEW g \in Groups, SendAcknowledged(g) \/ SendFailed(g)
      PROVE  [Ledger!Next]_(Ledger!vars)
  <2>1. /\ state' = state
        /\ home' = home \/ home' = [home EXCEPT ![g] = Larger(home[g], flushing[g])]
    BY <1>4 DEF SendAcknowledged, SendFailed
  <2>2. /\ home \in [Groups -> Nat] /\ flushing[g] \in Nat /\ releaseSequences[g] \in Nat
        /\ flushing[g] <= releaseSequences[g]
    BY DEF TypeOK, Known
  <2>3. CASE home' = home
    BY <1>1, <2>1, <2>3
  <2>4. CASE home' # home
    <3>1. home[g] < flushing[g] /\ home' = [home EXCEPT ![g] = flushing[g]]
      BY <2>1, <2>2, <2>4 DEF Larger
    <3>2. flushing[g] \in 1..releaseSequences[g]
      BY <2>2, <3>1
    <3>3. Ledger!Tell(g, flushing[g])
      BY <1>0, <2>1, <2>2, <3>1 DEF Ledger!Tell, Open
    <3> QED BY <3>2, <3>3 DEF Ledger!Next
  <2> QED BY <2>3, <2>4
<1> QED BY <1>2, <1>3, <1>4 DEF Others, Flush

\* Registry and flusher implement the ledger: an execution is counted once, at
\* its end, nothing is begun once the registry stopped accepting, and Home is
\* told of counted executions only.
THEOREM RegistryKeepsLedger == Spec => KeepsLedger
<1>1. Init => Ledger!Init
  BY LedgerInit
<1>2. (TypeOK /\ RegistryInv) /\ (TypeOK /\ RegistryInv)' /\ [Next]_vars => [Ledger!Next]_(Ledger!vars)
  BY NextCases, LedgerOwner, LedgerBegin, LedgerOthers DEF RegistryInv
<1> QED BY <1>1, <1>2, RegistryInvariant, PTL DEF Spec, KeepsLedger, Ledger!Spec
=============================================================================
