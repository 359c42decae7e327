--------------------------- MODULE WsRelay_proofs ---------------------------
(***************************************************************************)
(* Proofs about WsRelay, for any number of requests, any size of their     *)
(* channels and any length of the answers: types, that nobody sends on a   *)
(* closed channel, that an answer ends once, that no frame of it is lost,  *)
(* and that cleanup leaves no request behind.                              *)
(***************************************************************************)
EXTENDS WsRelay, TLAPS

-----------------------------------------------------------------------------
\* Requests that are closed.

LEMMA FrameFacts == End \in Frames \ {Failure} /\ Failure \in Frames /\ Terminal \subseteq Frames
BY DEF End, Failure, Terminal, Frames

\* Closing changes nothing else.
LEMMA ShutType ==
  ASSUME NEW p \in RequestSet
  PROVE  /\ Shut(p) \in RequestSet /\ Shut(p).ch = p.ch
         /\ Shut(p).closed = TRUE /\ Shut(p).terminal = p.terminal
BY DEF RequestSet, Shut

\* The error finds room in the channel, or makes it.
LEMMA ErrorType ==
  ASSUME NEW p \in RequestSet, Len(p.ch) <= Capacity
  PROVE  WithError(p) \in Seq(Frames) /\ Len(WithError(p)) <= Capacity
<1>1. p.ch \in Seq(Frames) /\ Failure \in Frames /\ Capacity \in Nat \ {0}
  BY FrameFacts, BoundAssumption DEF RequestSet
<1>2. CASE p.terminal \/ Len(p.ch) < Capacity
  BY <1>1, <1>2 DEF WithError
<1>3. CASE ~p.terminal /\ ~(Len(p.ch) < Capacity)
  <2>1. p.ch # <<>> /\ Tail(p.ch) \in Seq(Frames) /\ Len(Tail(p.ch)) = Len(p.ch) - 1
    BY <1>1, <1>3
  <2> QED BY <1>1, <1>3, <2>1 DEF WithError
<1> QED BY <1>2, <1>3

\* cancelWithError closes, and an answer that was not over ends with the error.
LEMMA ShutWithErrorType ==
  ASSUME NEW p \in RequestSet, Len(p.ch) <= Capacity
  PROVE  /\ ShutWithError(p) \in RequestSet /\ Len(ShutWithError(p).ch) <= Capacity
         /\ ShutWithError(p).closed = TRUE
         /\ p.closed \/ p.terminal => ShutWithError(p).ch = p.ch
<1>1. WithError(p) \in Seq(Frames) /\ Len(WithError(p)) <= Capacity
  BY ErrorType
<1>2. p.terminal => WithError(p) = p.ch
  BY DEF WithError
<1> QED BY <1>1, <1>2 DEF ShutWithError, Shut, RequestSet

-----------------------------------------------------------------------------
\* Every step keeps the types.
LEMMA TypeStep == TypeOK /\ [Next]_vars => TypeOK'
<1> SUFFICES ASSUME TypeOK, [Next]_vars PROVE TypeOK'
  OBVIOUS
<1> USE BoundAssumption, FrameFacts DEF TypeOK, clientVars, At, To, Resting
<1>1. ASSUME NEW r \in Requests, Calls(r) \/ Cancel(r) \/ Watch(r) \/ SeeClosed(r) \/ SeeDone(r)
      PROVE  TypeOK'
  <2>1. Shut(pr[r]) \in RequestSet /\ Shut(pr[r]).ch = pr[r].ch
    BY ShutType
  <2>2. CASE Store(r) \/ CheckOpen(r) \/ Written(r) \/ WriteFails(r) \/ Withdraw(r)
    BY <2>2 DEF Store, CheckOpen, Written, WriteFails, Withdraw
  <2>3. CASE CloseRequest(r)
    BY <2>1, <2>3 DEF CloseRequest
  <2>4. CASE SeeClosed(r) \/ SeeDone(r) \/ Cancel(r)
    BY <2>4 DEF SeeClosed, SeeDone, Cancel
  <2>5. CASE WatchDeletes(r)
    BY <2>5 DEF WatchDeletes
  <2>6. CASE WatchCancels(r)
    BY <2>1, <2>6 DEF WatchCancels
  <2> QED BY <1>1, <2>2, <2>3, <2>4, <2>5, <2>6 DEF Calls, Watch
<1>2. ASSUME NEW r \in Requests, Take(r)
      PROVE  TypeOK'
  <2>1. pr[r].ch \in Seq(Frames) /\ pr[r].ch # <<>>
    BY <1>2 DEF Take, RequestSet
  <2>2. /\ Tail(pr[r].ch) \in Seq(Frames) /\ Head(pr[r].ch) \in Frames
        /\ Len(Tail(pr[r].ch)) = Len(pr[r].ch) - 1 /\ Len(pr[r].ch) \in Nat
    BY <2>1
  <2>3. /\ pr' \in [Requests -> RequestSet] /\ pr'[r].ch = Tail(pr[r].ch)
        /\ \A o \in Requests \ {r} : pr'[o] = pr[o]
    BY <1>2, <2>2, ZenonT(30) DEF Take, RequestSet
  <2>4. got' \in [Requests -> Seq(Frames)]
    BY <1>2, <2>2 DEF Take
  <2>5. ASSUME NEW o \in Requests PROVE Len(pr'[o].ch) <= Capacity
    <3>1. Len(pr[o].ch) <= Capacity /\ Capacity \in Nat
      OBVIOUS
    <3>2. CASE o = r
      <4> HIDE DEF TypeOK
      <4>1. Len(pr'[o].ch) = Len(pr[o].ch) - 1 /\ Len(pr[o].ch) \in Nat
        BY <2>2, <2>3, <3>2
      <4> QED BY <3>1, <4>1
    <3>3. CASE o # r
      BY <2>3, <3>1, <3>3
    <3> QED BY <3>2, <3>3
  <2> QED BY <1>2, <2>3, <2>4, <2>5 DEF Take
<1>3. ASSUME NEW r \in Requests, NEW last \in BOOLEAN, ReadFrame(r, last)
      PROVE  TypeOK'
  <2>1. sent[r] \in 0..MaxChunks
    OBVIOUS
  <2>2. ~last => sent[r] + 1 \in 1..MaxChunks
    BY <1>3, <2>1 DEF ReadFrame
  <2>3. (IF last THEN End ELSE sent[r] + 1) \in Frames \ {Failure}
    BY <2>2 DEF Frames, End, Failure
  <2>4. reader' \in {Resting} \cup [at : {"locking"}, id : Requests, frame : Frames \ {Failure}]
    BY <1>3, <2>3 DEF ReadFrame
  <2>5. sent' \in [Requests -> 0..MaxChunks]
    BY <1>3, <2>2 DEF ReadFrame
  <2> QED BY <1>3, <2>4, <2>5 DEF ReadFrame
<1>4. ASSUME NEW r \in Requests, Dispatch(r)
      PROVE  TypeOK'
  <2> USE DEF Reading, After
  <2>1. CASE Deliver(r)
    BY <2>1 DEF Deliver
  <2>2. CASE Push(r)
    <3>1. reader.frame \in Frames /\ pr[r].ch \in Seq(Frames) /\ pr[r] \in RequestSet
      BY <2>2 DEF Push, RequestSet
    <3>2. /\ Append(pr[r].ch, reader.frame) \in Seq(Frames)
          /\ Len(Append(pr[r].ch, reader.frame)) = Len(pr[r].ch) + 1 /\ Len(pr[r].ch) \in Nat
      BY <3>1
    <3>3. /\ pr' \in [Requests -> RequestSet] /\ pr'[r].ch = Append(pr[r].ch, reader.frame)
          /\ \A o \in Requests \ {r} : pr'[o] = pr[o]
      BY <2>2, <3>1, <3>2 DEF Push, RequestSet
    <3>4. \A o \in Requests : Len(pr'[o].ch) <= Capacity
      BY <2>2, <3>2, <3>3 DEF Push
    <3>5. panicked' \in BOOLEAN
      BY <2>2, <3>1 DEF Push, RequestSet
    <3> QED BY <2>2, <3>3, <3>4, <3>5, SMTT(30) DEF Push
  <2>3. CASE Abandon(r)
    BY <2>3 DEF Abandon
  <2>4. CASE LoadAndDelete(r)
    BY <2>4 DEF LoadAndDelete
  <2>5. CASE FinishRequest(r)
    <3>1. /\ Shut(pr[r]) \in RequestSet /\ Shut(pr[r]).ch = pr[r].ch
          /\ ShutWithError(pr[r]) \in RequestSet /\ Len(ShutWithError(pr[r]).ch) <= Capacity
      BY ShutType, ShutWithErrorType
    <3> QED BY <2>5, <3>1 DEF FinishRequest
  <2> QED BY <1>4, <2>1, <2>2, <2>3, <2>4, <2>5 DEF Dispatch
<1>5. CASE CloseSession \/ Cleanup
  <2>1. CASE CloseSession \/ Range \/ CloseConnection
    <3>1. cleaner' \in [at : {"range", "visit", "done"}, todo : SUBSET Requests]
      BY <2>1 DEF CloseSession, Range, CloseConnection
    <3> QED BY <2>1, <3>1 DEF CloseSession, Range, CloseConnection
  <2>2. ASSUME NEW r \in Requests, Visit(r)
        PROVE  TypeOK'
    BY <2>2 DEF Visit
  <2>3. ASSUME NEW r \in Requests, CancelWithError(r)
        PROVE  TypeOK'
    <3>1. ShutWithError(pr[r]) \in RequestSet /\ Len(ShutWithError(pr[r]).ch) <= Capacity
      BY ShutWithErrorType
    <3> QED BY <2>3, <3>1 DEF CancelWithError
  <2> QED BY <1>5, <2>1, <2>2, <2>3 DEF Cleanup
<1>6. CASE UNCHANGED vars
  BY <1>6 DEF vars
<1> QED BY <1>1, <1>2, <1>3, <1>4, <1>5, <1>6 DEF Next, Consume

\* Every variable keeps its type, and no channel holds more than it can.
THEOREM TypeCorrect == Spec => []TypeOK
<1>1. Init => TypeOK
  <2>1. NewRequest \in RequestSet /\ <<>> \in Seq(Frames) /\ Len(NewRequest.ch) = 0
    BY DEF NewRequest, RequestSet
  <2>2. 0 \in 0..MaxChunks /\ 0 <= Capacity
    BY BoundAssumption
  <2>3. ASSUME Init PROVE cleaner \in [at : {"idle", "range", "visit", "done"}, todo : SUBSET Requests]
    BY <2>3 DEF Init
  <2>4. ASSUME Init PROVE \A r \in Requests : Len(pr[r].ch) <= Capacity
    BY <2>1, <2>2, <2>4 DEF Init
  <2>5. ASSUME Init
        PROVE  /\ pr \in [Requests -> RequestSet] /\ got \in [Requests -> Seq(Frames)]
               /\ sent \in [Requests -> 0..MaxChunks]
    BY <2>1, <2>2, <2>5 DEF Init
  <2> QED BY <2>3, <2>4, <2>5 DEF Init, TypeOK
<1> QED BY <1>1, TypeStep, PTL DEF Spec

-----------------------------------------------------------------------------
\* Frames after which nothing may come.

LEMMA AppendEnds ==
  ASSUME NEW q \in Seq(Frames), NEW f \in Frames, ~HasEnding(q)
  PROVE  LastIn(Append(q, f)) /\ (HasEnding(Append(q, f)) => f \in Terminal)
<1>1. Len(q) \in Nat /\ Len(Append(q, f)) = Len(q) + 1 /\ Append(q, f) \in Seq(Frames)
  OBVIOUS
<1>2. ASSUME NEW i \in DOMAIN Append(q, f), Append(q, f)[i] \in Terminal
      PROVE  i = Len(q) + 1 /\ f \in Terminal
  <2>1. i \in 1..(Len(q) + 1)
    BY <1>1, <1>2
  <2>2. CASE i = Len(q) + 1
    BY <1>2, <2>2
  <2>3. CASE i # Len(q) + 1
    <3>1. i \in DOMAIN q /\ Append(q, f)[i] = q[i]
      BY <1>1, <2>1, <2>3
    <3> QED BY <1>2, <3>1 DEF HasEnding
  <2> QED BY <2>2, <2>3
<1> QED BY <1>1, <1>2 DEF LastIn, HasEnding

LEMMA TailEnds ==
  ASSUME NEW q \in Seq(Frames), q # <<>>, LastIn(q)
  PROVE  /\ LastIn(Tail(q)) /\ (HasEnding(Tail(q)) => HasEnding(q))
         /\ Head(q) \in Terminal => HasEnding(q) /\ Tail(q) = <<>>
<1>1. /\ Len(q) \in Nat /\ Len(q) >= 1 /\ Len(Tail(q)) = Len(q) - 1
      /\ Tail(q) \in Seq(Frames) /\ Head(q) = q[1] /\ DOMAIN q = 1..Len(q)
      /\ DOMAIN Tail(q) = 1..(Len(q) - 1)
  OBVIOUS
<1>2. ASSUME NEW i \in DOMAIN Tail(q), Tail(q)[i] \in Terminal
      PROVE  i = Len(Tail(q)) /\ HasEnding(q)
  <2>1. i \in 1..(Len(q) - 1) /\ Tail(q)[i] = q[i + 1] /\ i + 1 \in DOMAIN q
    BY <1>1, <1>2
  <2> QED BY <1>1, <1>2, <2>1 DEF LastIn, HasEnding
<1>3. Head(q) \in Terminal => HasEnding(q) /\ Tail(q) = <<>>
  <2>1. SUFFICES ASSUME Head(q) \in Terminal PROVE HasEnding(q) /\ Tail(q) = <<>>
    OBVIOUS
  <2>2. 1 \in DOMAIN q /\ q[1] \in Terminal
    BY <1>1, <2>1
  <2>3. Len(q) = 1
    BY <2>2 DEF LastIn
  <2> QED BY <1>1, <2>2, <2>3 DEF HasEnding
<1> QED BY <1>2, <1>3 DEF LastIn, HasEnding

\* Closing a request, with or without the error, keeps its frames in order.
LEMMA EndsShut ==
  ASSUME NEW p \in RequestSet, NEW g, EndsLast(p, g)
  PROVE  EndsLast(Shut(p), g)
BY ShutType DEF EndsLast, Over

LEMMA EndsShutWithError ==
  ASSUME NEW p \in RequestSet, NEW g, EndsLast(p, g), Len(p.ch) <= Capacity
  PROVE  EndsLast(ShutWithError(p), g)
<1>1. /\ ShutWithError(p) \in RequestSet /\ ShutWithError(p).closed = TRUE
      /\ p.closed \/ p.terminal => ShutWithError(p).ch = p.ch
  BY ShutWithErrorType
<1>2. CASE Over(p)
  BY <1>1, <1>2 DEF EndsLast, Over
<1>3. CASE ~Over(p)
  <2>1. ~HasEnding(p.ch) /\ ~HasEnding(g)
    BY <1>3 DEF EndsLast
  <2>2. ShutWithError(p).ch = WithError(p)
    BY <1>3 DEF Over, ShutWithError, Shut, RequestSet
  <2>3. p.ch \in Seq(Frames) /\ Failure \in Frames /\ Capacity \in Nat \ {0}
    BY FrameFacts, BoundAssumption DEF RequestSet
  <2>4. LastIn(WithError(p))
    <3>1. CASE Len(p.ch) < Capacity
      BY <1>3, <2>1, <2>3, <3>1, AppendEnds DEF WithError, Over
    <3>2. CASE ~(Len(p.ch) < Capacity)
      <4>1. p.ch # <<>> /\ Tail(p.ch) \in Seq(Frames)
        BY <2>3, <3>2
      <4>2. ~HasEnding(Tail(p.ch))
        BY <2>1, <2>3, <4>1, TailEnds DEF EndsLast
      <4> QED BY <1>3, <2>3, <3>2, <4>1, <4>2, AppendEnds DEF WithError, Over
    <3> QED BY <3>1, <3>2
  <2> QED BY <1>1, <2>1, <2>2, <2>4 DEF EndsLast, Over
<1> QED BY <1>2, <1>3

-----------------------------------------------------------------------------
\* The lock.

\* The steps that close a request, or are the read loop's.
Closes(r) == CloseRequest(r) \/ WatchCancels(r) \/ CancelWithError(r)
Leaves(r) == \/ Store(r) \/ CheckOpen(r) \/ Written(r) \/ WriteFails(r) \/ Withdraw(r)
             \/ SeeClosed(r) \/ SeeDone(r) \/ Cancel(r) \/ WatchDeletes(r) \/ Visit(r)

LEMMA NextCases ==
  ASSUME [Next]_vars
  PROVE  \/ \E r \in Requests : Closes(r) \/ Leaves(r) \/ Take(r) \/ Dispatch(r)
         \/ \E r \in Requests : \E last \in BOOLEAN : ReadFrame(r, last)
         \/ CloseSession \/ Range \/ CloseConnection \/ UNCHANGED vars
BY DEF Next, Calls, Consume, Watch, Cleanup, Closes, Leaves

\* What most steps leave alone.
LEMMA LeavesAlone ==
  ASSUME NEW r \in Requests, Leaves(r)
  PROVE  UNCHANGED <<pr, reader, got, panicked>>
BY DEF Leaves, Store, CheckOpen, Written, WriteFails, Withdraw, SeeClosed, SeeDone,
       Cancel, WatchDeletes, Visit

LEMMA ClosesOne ==
  ASSUME NEW r \in Requests, Closes(r)
  PROVE  /\ ~Locked(r) /\ UNCHANGED <<reader, got, panicked>>
         /\ \E q \in {Shut(pr[r]), ShutWithError(pr[r])} : pr' = [pr EXCEPT ![r] = q]
BY DEF Closes, CloseRequest, WatchCancels, CancelWithError

\* The read loop finds the request it holds open, so it never panics.
LEMMA LockStep ==
  ASSUME TypeOK, NoPanic, HeldOpen, [Next]_vars
  PROVE  NoPanic' /\ HeldOpen'
<1>1. pr \in [Requests -> RequestSet]
  BY DEF TypeOK
<1>2. CASE UNCHANGED <<pr, reader, panicked>>
  BY <1>2 DEF NoPanic, HeldOpen, Locked, Over
<1>3. ASSUME NEW r \in Requests, Closes(r)
      PROVE  NoPanic' /\ HeldOpen'
  <2>1. /\ ~Locked(r) /\ UNCHANGED <<reader, panicked>>
        /\ \A o \in Requests \ {r} : pr'[o] = pr[o]
    BY <1>1, <1>3, ClosesOne
  <2> QED BY <2>1 DEF NoPanic, HeldOpen, Locked, Over
<1>4. ASSUME NEW r \in Requests, Take(r)
      PROVE  NoPanic' /\ HeldOpen'
  <2>1. /\ UNCHANGED <<reader, panicked>>
        /\ \A o \in Requests : Over(pr'[o]) = Over(pr[o])
    BY <1>1, <1>4 DEF Take, Over, RequestSet
  <2> QED BY <2>1 DEF NoPanic, HeldOpen, Locked
<1>5. ASSUME NEW r \in Requests, Dispatch(r)
      PROVE  NoPanic' /\ HeldOpen'
  <2>1. CASE Deliver(r)
    <3>1. reader'.at = "selecting" => reader'.id = r /\ ~Over(pr[r])
      BY <2>1 DEF Deliver, After, To, Over, Resting
    <3>2. UNCHANGED <<pr, panicked>>
      BY <2>1 DEF Deliver
    <3> QED BY <3>1, <3>2 DEF NoPanic, HeldOpen, Locked
  <2>2. CASE Push(r)
    <3>1. ~pr[r].closed /\ reader'.at # "selecting" /\ panicked' = (panicked \/ pr[r].closed)
      BY <2>2 DEF Push, After, To, Reading, HeldOpen, Locked, Over, Resting
    <3> QED BY <3>1 DEF NoPanic, HeldOpen, Locked
  <2>3. CASE Abandon(r) \/ LoadAndDelete(r) \/ FinishRequest(r)
    <3>1. reader'.at # "selecting" /\ UNCHANGED panicked
      BY <2>3 DEF Abandon, LoadAndDelete, FinishRequest, After, To, Resting
    <3> QED BY <3>1 DEF NoPanic, HeldOpen, Locked
  <2> QED BY <1>5, <2>1, <2>2, <2>3 DEF Dispatch
<1>6. ASSUME NEW r \in Requests, NEW last \in BOOLEAN, ReadFrame(r, last)
      PROVE  NoPanic' /\ HeldOpen'
  <2>1. reader'.at # "selecting" /\ UNCHANGED panicked
    BY <1>6 DEF ReadFrame, To
  <2> QED BY <2>1 DEF NoPanic, HeldOpen, Locked
<1>7. CASE CloseSession \/ Range \/ CloseConnection
  BY <1>2, <1>7 DEF CloseSession, Range, CloseConnection
<1> QED BY <1>2, <1>3, <1>4, <1>5, <1>6, <1>7, NextCases, LeavesAlone DEF vars

\* Whatever ends an answer is the last its consumer is given.
LEMMA EndingStep ==
  ASSUME TypeOK, HeldOpen, EndingsLast, [Next]_vars
  PROVE  EndingsLast'
<1>1. /\ pr \in [Requests -> RequestSet] /\ got \in [Requests -> Seq(Frames)]
      /\ \A r \in Requests : Len(pr[r].ch) <= Capacity /\ pr[r].ch \in Seq(Frames)
  BY DEF TypeOK, RequestSet
<1>2. CASE UNCHANGED <<pr, got>>
  BY <1>2 DEF EndingsLast
<1>3. ASSUME NEW r \in Requests, NEW q \in {Shut(pr[r]), ShutWithError(pr[r])},
             pr' = [pr EXCEPT ![r] = q], got' = got
      PROVE  EndingsLast'
  <2>1. EndsLast(q, got[r])
    BY <1>1, EndsShut, EndsShutWithError DEF EndingsLast
  <2> QED BY <1>1, <1>3, <2>1 DEF EndingsLast
<1>4. ASSUME NEW r \in Requests, Take(r)
      PROVE  EndingsLast'
  <2> DEFINE q == pr[r].ch
  <2>1. /\ q \in Seq(Frames) /\ q # <<>> /\ LastIn(q) /\ ~HasEnding(got[r])
        /\ HasEnding(q) => Over(pr[r])
    BY <1>1, <1>4 DEF Take, EndingsLast, EndsLast
  <2>2. Head(q) \in Frames /\ got[r] \in Seq(Frames)
    BY <1>1, <2>1
  <2>3. /\ got'[r] = Append(got[r], Head(q)) /\ pr'[r] = [pr[r] EXCEPT !.ch = Tail(q)]
        /\ \A o \in Requests \ {r} : pr'[o] = pr[o] /\ got'[o] = got[o]
    BY <1>1, <1>4 DEF Take
  <2>4. pr'[r].ch = Tail(q) /\ Over(pr'[r]) = Over(pr[r])
    BY <1>1, <2>3 DEF RequestSet, Over
  <2> HIDE DEF q
  <2>5. EndsLast(pr'[r], got'[r])
    BY <2>1, <2>2, <2>3, <2>4, AppendEnds, TailEnds DEF EndsLast
  <2> QED BY <2>3, <2>5 DEF EndingsLast
<1>5. ASSUME NEW r \in Requests, Push(r)
      PROVE  EndingsLast'
  <2>1. reader.frame \in Frames \ {Failure} /\ ~Over(pr[r])
    BY <1>5 DEF Push, Reading, TypeOK, Resting, HeldOpen, Locked
  <2>2. ~HasEnding(pr[r].ch) /\ ~HasEnding(got[r]) /\ LastIn(got[r])
    BY <2>1 DEF EndingsLast, EndsLast
  <2>3. /\ pr'[r].ch = Append(pr[r].ch, reader.frame) /\ pr'[r].terminal = (reader.frame = End)
        /\ got' = got /\ \A o \in Requests \ {r} : pr'[o] = pr[o]
    BY <1>1, <1>5 DEF Push, RequestSet
  <2>4. LastIn(pr'[r].ch) /\ (HasEnding(pr'[r].ch) => reader.frame = End)
    BY <1>1, <2>1, <2>2, <2>3, AppendEnds DEF Terminal
  <2>5. EndsLast(pr'[r], got'[r])
    BY <2>2, <2>3, <2>4 DEF EndsLast, Over
  <2> QED BY <2>3, <2>5 DEF EndingsLast
<1>6. ASSUME NEW r \in Requests, Dispatch(r)
      PROVE  EndingsLast'
  <2>1. CASE Deliver(r) \/ Abandon(r) \/ LoadAndDelete(r)
    BY <1>2, <2>1 DEF Deliver, Abandon, LoadAndDelete
  <2>2. CASE FinishRequest(r)
    BY <1>3, <2>2 DEF FinishRequest
  <2> QED BY <1>5, <1>6, <2>1, <2>2 DEF Dispatch
<1>7. ASSUME NEW r \in Requests, Closes(r)
      PROVE  EndingsLast'
  BY <1>3, <1>7, ClosesOne
<1>8. ASSUME NEW r \in Requests, NEW last \in BOOLEAN, ReadFrame(r, last)
      PROVE  EndingsLast'
  BY <1>2, <1>8 DEF ReadFrame
<1>9. CASE CloseSession \/ Range \/ CloseConnection
  BY <1>2, <1>9 DEF CloseSession, Range, CloseConnection
<1> QED BY <1>2, <1>4, <1>6, <1>7, <1>8, <1>9, NextCases, LeavesAlone DEF vars

-----------------------------------------------------------------------------
\* Cleanup.

\* A request that cleanup will not visit is one that will see it closed.
LEMMA CleanupStep ==
  ASSUME TypeOK, CleanupSees, [Next]_vars
  PROVE  CleanupSees'
<1>1. /\ pending \subseteq Requests
      /\ call \in [Requests -> {"new", "stored", "writing", "failed", "closing", "reading", "ended", "gone"}]
      /\ cleaner \in [at : {"idle", "range", "visit", "done"}, todo : SUBSET Requests]
                     \cup [at : {"cancel"}, id : Requests, todo : SUBSET Requests]
  BY DEF TypeOK
<1>2. CASE UNCHANGED <<closed, pending, call, cleaner>>
  BY <1>2 DEF CleanupSees
<1> DEFINE Doomed(o) == call[o] \in {"stored", "failed"}
<1>3. ASSUME NEW r \in Requests, Store(r) \/ CheckOpen(r) \/ Written(r) \/ WriteFails(r) \/ Withdraw(r)
      PROVE  CleanupSees'
  <2>1. /\ UNCHANGED <<closed, cleaner>> /\ pending' \subseteq pending \cup {r}
        /\ \A o \in Requests \ {r} : call'[o] = call[o]
    BY <1>1, <1>3 DEF Store, CheckOpen, Written, WriteFails, Withdraw, At
  <2>2. ASSUME r \in pending' \ cleaner.todo, cleaner.at \in {"visit", "cancel", "done"}
        PROVE  Doomed(r)'
    <3>1. closed
      BY <2>2 DEF CleanupSees
    <3>2. Store(r) \/ Doomed(r)
      BY <1>3, <2>2 DEF CleanupSees, CheckOpen, Written, WriteFails, Withdraw
    <3>3. CASE Store(r)
      BY <1>1, <3>3 DEF Store, At
    <3>4. CASE CheckOpen(r)
      BY <1>1, <3>1, <3>4 DEF CheckOpen, MayWrite, At
    <3>5. CASE Written(r) \/ WriteFails(r) \/ Withdraw(r)
      BY <1>1, <2>2, <3>2, <3>5 DEF Store, Written, WriteFails, Withdraw, At
    <3> QED BY <1>3, <3>3, <3>4, <3>5
  <2> QED BY <1>1, <2>1, <2>2 DEF CleanupSees
<1>4. ASSUME NEW r \in Requests, SeeClosed(r) \/ SeeDone(r) \/ Take(r) \/ CloseRequest(r)
      PROVE  CleanupSees'
  <2>1. /\ UNCHANGED <<closed, cleaner, pending>> /\ ~Doomed(r)
        /\ \A o \in Requests \ {r} : call'[o] = call[o]
    BY <1>1, <1>4 DEF SeeClosed, SeeDone, Take, CloseRequest, At
  <2> QED BY <1>1, <2>1 DEF CleanupSees
<1>5. ASSUME UNCHANGED <<closed, cleaner, call>>, pending' \subseteq pending
      PROVE  CleanupSees'
  BY <1>5 DEF CleanupSees
<1>6. ASSUME NEW r \in Requests, Visit(r) \/ CancelWithError(r)
      PROVE  CleanupSees'
  <2>1. /\ UNCHANGED <<closed, call>> /\ pending' \ cleaner'.todo \subseteq pending \ cleaner.todo
        /\ cleaner.at \in {"visit", "cancel"} /\ cleaner'.at \in {"visit", "cancel"}
    BY <1>6 DEF Visit, CancelWithError
  <2> QED BY <2>1 DEF CleanupSees
<1>7. CASE CloseSession \/ Range \/ CloseConnection
  BY <1>7 DEF CloseSession, Range, CloseConnection, CleanupSees
<1>8. ASSUME NEW r \in Requests, Closes(r) \/ Leaves(r) \/ Take(r) \/ Dispatch(r)
      PROVE  CleanupSees'
  <2>1. CASE Dispatch(r) \/ WatchCancels(r) \/ WatchDeletes(r) \/ Cancel(r)
    BY <1>5, <2>1 DEF Dispatch, Deliver, Push, Abandon, LoadAndDelete, FinishRequest,
                      WatchCancels, WatchDeletes, Cancel
  <2> QED BY <1>3, <1>4, <1>6, <1>8, <2>1 DEF Closes, Leaves
<1>9. ASSUME NEW r \in Requests, NEW last \in BOOLEAN, ReadFrame(r, last)
      PROVE  CleanupSees'
  BY <1>2, <1>9 DEF ReadFrame
<1> QED BY <1>2, <1>7, <1>8, <1>9, NextCases DEF vars

-----------------------------------------------------------------------------
\* The parts hold together: each is kept by every step that finds them all.
THEOREM RelayInvariant == Spec => []RelayInv
<1>1. Init => RelayInv
  <2> SUFFICES ASSUME Init PROVE RelayInv
    OBVIOUS
  <2>1. \A r \in Requests : pr[r] = NewRequest /\ got[r] = <<>>
    BY DEF Init
  <2>2. LastIn(<<>>) /\ ~HasEnding(<<>>)
    BY DEF LastIn, HasEnding
  <2>3. EndingsLast
    <3>1. NewRequest.ch = <<>>
      BY DEF NewRequest
    <3>2. EndsLast(NewRequest, <<>>)
      BY <2>2, <3>1 DEF EndsLast
    <3> QED BY <2>1, <3>2 DEF EndingsLast
  <2>4. reader.at = "idle" /\ cleaner.at = "idle"
    BY DEF Init, Resting
  <2>5. ~panicked
    BY DEF Init
  <2> QED BY <2>3, <2>4, <2>5 DEF RelayInv, NoPanic, HeldOpen, Locked, CleanupSees
<1>2. TypeOK /\ RelayInv /\ [Next]_vars => RelayInv'
  BY LockStep, EndingStep, CleanupStep DEF RelayInv
<1> QED BY <1>1, <1>2, TypeCorrect, PTL DEF Spec

\* Nobody sends on a channel that another goroutine has closed.
THEOREM RelayNeverPanics == Spec => []NoPanic
<1>1. RelayInv => NoPanic
  BY DEF RelayInv
<1> QED BY <1>1, RelayInvariant, PTL

\* An answer ends once, however its ends race: terminal frame, cancelled
\* context, failed write, session closed.
THEOREM AnswersEndOnce == Spec => []OneEnding
<1>1. TypeOK /\ RelayInv => OneEnding
  <2> SUFFICES ASSUME TypeOK, RelayInv, NEW r \in Requests,
                      NEW i \in DOMAIN Given(r), Given(r)[i] \in Terminal
               PROVE  i = Len(Given(r))
    BY DEF OneEnding
  <2> DEFINE g == got[r]
             c == pr[r].ch
  <2>1. g \in Seq(Frames) /\ c \in Seq(Frames)
    BY DEF TypeOK, RequestSet
  <2>2. LastIn(c) /\ LastIn(g) /\ (HasEnding(g) => c = <<>>)
    BY DEF RelayInv, EndingsLast, EndsLast
  <2>3. Given(r) = g \o c
    BY DEF Given
  <2> HIDE DEF g, c
  <2>4. /\ Len(g \o c) = Len(g) + Len(c) /\ Len(g) \in Nat /\ Len(c) \in Nat
        /\ i \in 1..(Len(g) + Len(c)) /\ (g \o c)[i] \in Terminal
    BY <2>1, <2>3
  <2>5. CASE i <= Len(g)
    <3>1. i \in DOMAIN g /\ g[i] \in Terminal
      BY <2>1, <2>4, <2>5
    <3>2. c = <<>> /\ i = Len(g)
      BY <2>2, <3>1 DEF HasEnding, LastIn
    <3> QED BY <2>3, <2>4, <3>2
  <2>6. CASE i > Len(g)
    <3>1. i - Len(g) \in DOMAIN c /\ c[i - Len(g)] \in Terminal
      BY <2>1, <2>4, <2>6
    <3>2. i - Len(g) = Len(c)
      BY <2>2, <3>1 DEF LastIn
    <3> QED BY <2>3, <2>4, <3>2
  <2> QED BY <2>4, <2>5, <2>6
<1> QED BY <1>1, TypeCorrect, RelayInvariant, PTL

\* When cleanup is done, a request still stored is one that has yet to see the
\* session closed.
THEOREM CleanupLeavesNone == Spec => []NoOrphan
<1>1. RelayInv => NoOrphan
  BY DEF RelayInv, CleanupSees, NoOrphan
<1> QED BY <1>1, RelayInvariant, PTL

-----------------------------------------------------------------------------
\* Why no frame is lost.  While the session is open and a request is wanted, its
\* consumer has been given, and will find, every frame that was read for it but
\* the one the read loop still holds; nothing but its terminal frame takes the
\* request out of the session or closes it.
Chunks(q, n) == Len(q) = n /\ \A i \in 1..n : q[i] = i
Complete(q, n) == Len(q) = n + 1 /\ q[n + 1] = End /\ \A i \in 1..n : q[i] = i

Wanted(r) == ~closed /\ r \notin done
Busy(r) == reader # Resting /\ reader.id = r
Holding(r) == Busy(r) /\ reader.at \in {"locking", "selecting"}
HoldsEnd(r) == Holding(r) /\ reader.frame = End
HoldsChunk(r) == Holding(r) /\ reader.frame # End

InFull(r) ==
  /\ HoldsEnd(r) => r \in finished /\ Chunks(Given(r), sent[r])
  /\ HoldsChunk(r) => /\ r \notin finished /\ reader.frame = sent[r]
                      /\ Chunks(Given(r), sent[r] - 1)
  /\ ~Holding(r) /\ r \in finished => Complete(Given(r), sent[r])
  /\ ~Holding(r) /\ r \notin finished => Chunks(Given(r), sent[r])
Underway(r) == call[r] \in {"stored", "writing", "reading", "ended"} /\ r \notin finished
Attended(r) ==
  /\ InFull(r)
  /\ Busy(r) => /\ call[r] \in {"reading", "ended"} /\ reader.at \notin {"refused", "failing"}
                /\ Holding(r) \/ r \in finished
  /\ r \in finished \/ sent[r] > 0 => call[r] \in {"reading", "ended"}
  /\ call[r] = "new" \/ Underway(r) \/ Holding(r) => ~Over(pr[r])
  /\ Underway(r) => r \in pending
FramesInv ==
  /\ \A r \in Requests : Wanted(r) => Attended(r)
  /\ \A r \in Requests : watch[r] = "cancel" => r \in done

LEMMA ChunksAppend ==
  ASSUME NEW q \in Seq(Frames), NEW f \in Frames, NEW n \in Nat, Chunks(q, n)
  PROVE  /\ f = n + 1 => Chunks(Append(q, f), n + 1)
         /\ f = End => Complete(Append(q, f), n)
<1>1. /\ Len(q) = n /\ Len(Append(q, f)) = n + 1 /\ Append(q, f)[n + 1] = f
      /\ \A i \in 1..n : Append(q, f)[i] = q[i]
  BY DEF Chunks
<1> QED BY <1>1 DEF Chunks, Complete

\* Taking a frame out of the channel moves it, delivering one adds it at the end.
LEMMA GivenTake ==
  ASSUME NEW g \in Seq(Frames), NEW c \in Seq(Frames), c # <<>>
  PROVE  Append(g, Head(c)) \o Tail(c) = g \o c
<1> DEFINE x == Append(g, Head(c)) \o Tail(c)
           y == g \o c
<1>1. /\ Len(c) \in Nat /\ Len(c) >= 1 /\ Len(Tail(c)) = Len(c) - 1 /\ Len(g) \in Nat
      /\ Tail(c) \in Seq(Frames) /\ Head(c) = c[1] /\ Head(c) \in Frames
      /\ Append(g, Head(c)) \in Seq(Frames) /\ Len(Append(g, Head(c))) = Len(g) + 1
  OBVIOUS
<1>2. x \in Seq(Frames) /\ y \in Seq(Frames) /\ Len(x) = Len(g) + Len(c) /\ Len(y) = Len(g) + Len(c)
  BY <1>1
<1>3. ASSUME NEW i \in 1..(Len(g) + Len(c)) PROVE x[i] = y[i]
  <2>1. CASE i <= Len(g)
    <3>1. x[i] = Append(g, Head(c))[i] /\ Append(g, Head(c))[i] = g[i] /\ y[i] = g[i]
      BY <1>1, <2>1
    <3> QED BY <3>1
  <2>2. CASE i = Len(g) + 1
    <3>1. x[i] = Append(g, Head(c))[i] /\ Append(g, Head(c))[i] = Head(c) /\ y[i] = c[1]
      BY <1>1, <2>2
    <3> QED BY <1>1, <3>1
  <2>3. CASE i > Len(g) + 1
    <3>1. x[i] = Tail(c)[i - (Len(g) + 1)] /\ y[i] = c[i - Len(g)]
      BY <1>1, <2>3
    <3>2. i - (Len(g) + 1) \in 1..Len(Tail(c))
      BY <1>1, <2>3
    <3>3. Tail(c)[i - (Len(g) + 1)] = c[i - (Len(g) + 1) + 1]
      BY <1>1, <3>2
    <3> QED BY <1>1, <3>1, <3>3
  <2> QED BY <1>1, <2>1, <2>2, <2>3
<1> HIDE DEF x, y
<1>4. x = y
  BY <1>2, <1>3
<1> QED BY <1>4 DEF x, y

LEMMA GivenPush ==
  ASSUME NEW g \in Seq(Frames), NEW c \in Seq(Frames), NEW f \in Frames
  PROVE  g \o Append(c, f) = Append(g \o c, f) /\ g \o c \in Seq(Frames)
<1> DEFINE x == g \o Append(c, f)
           y == Append(g \o c, f)
<1>1. /\ Len(c) \in Nat /\ Len(g) \in Nat /\ Append(c, f) \in Seq(Frames) /\ g \o c \in Seq(Frames)
      /\ Len(Append(c, f)) = Len(c) + 1 /\ Len(g \o c) = Len(g) + Len(c)
  OBVIOUS
<1>2. x \in Seq(Frames) /\ y \in Seq(Frames) /\ Len(x) = Len(g) + Len(c) + 1 /\ Len(y) = Len(x)
  BY <1>1
<1>3. ASSUME NEW i \in 1..(Len(g) + Len(c) + 1) PROVE x[i] = y[i]
  <2>1. CASE i <= Len(g)
    <3>1. x[i] = g[i] /\ y[i] = (g \o c)[i] /\ (g \o c)[i] = g[i]
      BY <1>1, <2>1
    <3> QED BY <3>1
  <2>2. CASE i > Len(g) /\ i <= Len(g) + Len(c)
    <3>1. x[i] = Append(c, f)[i - Len(g)] /\ y[i] = (g \o c)[i] /\ (g \o c)[i] = c[i - Len(g)]
      BY <1>1, <2>2
    <3>2. i - Len(g) \in 1..Len(c)
      BY <1>1, <2>2
    <3> QED BY <1>1, <3>1, <3>2
  <2>3. CASE i = Len(g) + Len(c) + 1
    <3>1. x[i] = Append(c, f)[Len(c) + 1] /\ y[i] = f
      BY <1>1, <2>3
    <3> QED BY <1>1, <3>1
  <2> QED BY <1>1, <2>1, <2>2, <2>3
<1> HIDE DEF x, y
<1>4. x = y
  BY <1>2, <1>3
<1> QED BY <1>1, <1>4 DEF x, y

\* A request of which a step changes nothing stays attended to.
LEMMA ElsewhereAttended ==
  ASSUME NEW o \in Requests, Attended(o),
         pr'[o] = pr[o], got'[o] = got[o], sent'[o] = sent[o], call'[o] = call[o],
         o \in finished' <=> o \in finished, o \in pending => o \in pending',
         reader' = reader \/ (~Busy(o) /\ ~Busy(o)')
  PROVE  Attended(o)'
<1>1. Given(o)' = Given(o)
  BY DEF Given
<1>2. (Busy(o)' <=> Busy(o)) /\ (Busy(o) => reader' = reader)
  BY DEF Busy
<1>3. /\ (Holding(o)' <=> Holding(o)) /\ (HoldsEnd(o)' <=> HoldsEnd(o))
      /\ (HoldsChunk(o)' <=> HoldsChunk(o))
  BY <1>2 DEF Holding, HoldsEnd, HoldsChunk
<1>4. InFull(o)'
  BY <1>1, <1>2, <1>3 DEF Attended, InFull, HoldsChunk, Holding
<1> QED BY <1>2, <1>3, <1>4 DEF Attended, Underway, Over

\* Only its frames and its place change: a request that goes from one place to
\* the next, or whose consumer takes a frame.
LEMMA MovesAttended ==
  ASSUME NEW r \in Requests, Attended(r), reader' = reader, clientVars' = clientVars,
         Given(r)' = Given(r),
         call[r] = "new" \/ Underway(r) =>
           ~Over(pr'[r]) \/ call'[r] \in {"failed", "closing", "gone"},
         Holding(r) => ~Over(pr'[r]),
         \/ call[r] = "new" /\ call'[r] = "stored" /\ r \in pending'
         \/ /\ call[r] \in {"stored", "writing"} /\ call'[r] \in {"writing", "reading", "failed"}
            /\ pending' = pending
         \/ call[r] \in {"failed", "closing"} /\ call'[r] \in {"closing", "gone"}
         \/ call[r] = "reading" /\ call'[r] \in {"reading", "ended"} /\ pending' = pending
  PROVE  Attended(r)'
<1>1. Busy(r)' = Busy(r) /\ Holding(r)' = Holding(r) /\ HoldsEnd(r)' = HoldsEnd(r)
      /\ HoldsChunk(r)' = HoldsChunk(r)
  BY DEF Busy, Holding, HoldsEnd, HoldsChunk
<1>2. InFull(r)'
  BY <1>1 DEF Attended, InFull, clientVars
<1> QED BY <1>1, <1>2 DEF Attended, Underway, clientVars

LEMMA CallAttended ==
  ASSUME TypeOK, NEW r \in Requests, Attended(r),
         Calls(r) \/ Take(r) \/ SeeClosed(r) \/ SeeDone(r)
  PROVE  Attended(r)'
<1>0. /\ pr[r] \in RequestSet /\ pr[r].ch \in Seq(Frames) /\ got[r] \in Seq(Frames)
      /\ call \in [Requests -> {"new", "stored", "writing", "failed", "closing", "reading", "ended", "gone"}]
  BY DEF TypeOK, RequestSet
<1>1. CASE Store(r)
  BY <1>0, <1>1, MovesAttended DEF Store, At, Given, Attended, Holding, Over
<1>2. CASE CheckOpen(r) \/ Written(r) \/ WriteFails(r)
  <2>1. /\ call[r] \in {"stored", "writing"} /\ call'[r] \in {"writing", "reading", "failed"}
        /\ UNCHANGED <<pending, pr, got, reader, clientVars>>
    BY <1>0, <1>2 DEF CheckOpen, Written, WriteFails, At
  <2> QED BY <2>1, MovesAttended DEF Given, Attended
<1>3. CASE Withdraw(r) \/ CloseRequest(r)
  <2>1. /\ call[r] \in {"failed", "closing"} /\ call'[r] \in {"closing", "gone"}
        /\ UNCHANGED <<got, reader, clientVars>>
    BY <1>0, <1>3 DEF Withdraw, CloseRequest, At
  <2>2. Given(r)' = Given(r)
    <3>1. pr'[r].ch = pr[r].ch
      BY <1>0, <1>3, ShutType DEF Withdraw, CloseRequest, TypeOK
    <3> QED BY <2>1, <3>1 DEF Given
  <2>3. ~Holding(r) /\ ~Underway(r)
    BY <2>1 DEF Attended, Holding, Underway
  <2> QED BY <2>1, <2>2, <2>3, MovesAttended
<1>4. CASE Take(r)
  <2>1. /\ pr[r].ch # <<>> /\ call[r] = "reading" /\ call'[r] \in {"reading", "ended"}
        /\ got'[r] = Append(got[r], Head(pr[r].ch)) /\ pr'[r] = [pr[r] EXCEPT !.ch = Tail(@)]
        /\ UNCHANGED <<pending, reader, clientVars>>
    BY <1>0, <1>4 DEF Take, At, TypeOK
  <2>2. pr'[r].ch = Tail(pr[r].ch) /\ Over(pr'[r]) = Over(pr[r])
    BY <1>0, <2>1 DEF RequestSet, Over
  <2>3. Given(r)' = Given(r)
    BY <1>0, <2>1, <2>2, GivenTake DEF Given
  <2> QED BY <2>1, <2>2, <2>3, MovesAttended DEF Attended
<1>5. CASE SeeClosed(r) \/ SeeDone(r)
  <2>1. /\ call[r] = "reading" /\ call'[r] = "ended"
        /\ UNCHANGED <<pending, pr, got, reader, clientVars>>
    BY <1>0, <1>5 DEF SeeClosed, SeeDone, At
  <2> QED BY <2>1, MovesAttended DEF Given, Attended
<1> QED BY <1>1, <1>2, <1>3, <1>4, <1>5 DEF Calls

\* The read loop's steps for the request it holds a frame of, or has delivered
\* the last one of.
LEMMA DispatchAttended ==
  ASSUME TypeOK, NEW r \in Requests, Attended(r), Wanted(r), Dispatch(r)
  PROVE  Attended(r)'
<1>0. /\ pr[r] \in RequestSet /\ pr[r].ch \in Seq(Frames) /\ got[r] \in Seq(Frames)
      /\ sent[r] \in Nat /\ Busy(r) /\ reader.frame \in Frames /\ pr \in [Requests -> RequestSet]
  <2>1. reader # Resting /\ reader.id = r
    BY DEF Dispatch, Deliver, Push, Abandon, LoadAndDelete, FinishRequest, Reading, Resting
  <2> QED BY <2>1 DEF TypeOK, RequestSet, Busy
<1>1. CASE Deliver(r)
  <2>1. Holding(r) /\ ~Over(pr[r])
    BY <1>0, <1>1 DEF Deliver, Reading, Holding, Attended
  <2>2. reader' = [at |-> "selecting", id |-> r, frame |-> reader.frame]
        /\ UNCHANGED <<pr, got, call, pending, clientVars>>
    BY <1>1, <2>1 DEF Deliver, Over, To
  <2>3. Busy(r)' /\ Holding(r)' /\ HoldsEnd(r)' = HoldsEnd(r) /\ HoldsChunk(r)' = HoldsChunk(r)
        /\ Given(r)' = Given(r) /\ reader'.at = "selecting" /\ reader'.frame = reader.frame
    BY <2>1, <2>2 DEF Busy, Holding, HoldsEnd, HoldsChunk, Given, Resting
  <2>4. InFull(r)'
    BY <2>1, <2>2, <2>3 DEF Attended, InFull, clientVars
  <2> QED BY <1>0, <2>1, <2>2, <2>3, <2>4 DEF Attended, Underway, clientVars
<1>2. CASE Push(r)
  <2>1. Holding(r) /\ ~Over(pr[r]) /\ call[r] \in {"reading", "ended"}
    BY <1>0, <1>2 DEF Push, Reading, Holding, Attended
  <2>2. /\ UNCHANGED <<got, call, pending, clientVars>>
        /\ pr'[r].ch = Append(pr[r].ch, reader.frame) /\ pr'[r].closed = pr[r].closed
        /\ pr'[r].terminal = (reader.frame = End)
        /\ \/ reader' = Resting
           \/ reader.frame = End /\ reader' = [at |-> "delivered", id |-> r, frame |-> End]
    BY <1>0, <1>2 DEF Push, After, To, RequestSet
  <2>3. /\ ~Holding(r)' /\ reader'.at \in {"idle", "delivered"} /\ (Busy(r)' => reader.frame = End)
    BY <2>2 DEF Holding, Busy, Resting
  <2>4. Given(r)' = Append(Given(r), reader.frame) /\ Given(r) \in Seq(Frames)
    <3>1. /\ got[r] \o Append(pr[r].ch, reader.frame) = Append(got[r] \o pr[r].ch, reader.frame)
          /\ got[r] \o pr[r].ch \in Seq(Frames)
      BY <1>0, GivenPush
    <3>2. Given(r)' = got[r] \o Append(pr[r].ch, reader.frame)
      BY <2>2 DEF Given
    <3> QED BY <3>1, <3>2 DEF Given
  <2>5. CASE reader.frame = End
    <3>1. r \in finished /\ Chunks(Given(r), sent[r])
      BY <2>1, <2>5 DEF Attended, InFull, HoldsEnd
    <3>2. Complete(Given(r)', sent[r])
      BY <1>0, <2>4, <2>5, <3>1, ChunksAppend
    <3>3. InFull(r)'
      BY <2>2, <2>3, <3>1, <3>2 DEF InFull, HoldsEnd, HoldsChunk, clientVars
    <3> QED BY <2>1, <2>2, <2>3, <3>1, <3>3 DEF Attended, Underway, clientVars
  <2>6. CASE reader.frame # End
    <3>1. r \notin finished /\ Chunks(Given(r), sent[r] - 1) /\ reader.frame = sent[r]
      BY <2>1, <2>6 DEF Attended, InFull, HoldsChunk
    <3>2. sent[r] - 1 \in Nat
      BY <1>0, <2>6, <3>1 DEF End
    <3>3. Chunks(Given(r)', (sent[r] - 1) + 1)
      BY <1>0, <2>4, <3>1, <3>2, ChunksAppend
    <3>4. InFull(r)'
      BY <1>0, <2>2, <2>3, <3>1, <3>3 DEF InFull, HoldsEnd, HoldsChunk, clientVars
    <3> QED BY <2>1, <2>2, <2>3, <2>6, <3>1, <3>4 DEF Attended, Underway, clientVars, Over
  <2> QED BY <2>5, <2>6
<1>3. CASE LoadAndDelete(r)
  <2>1. /\ reader.at = "delivered" /\ ~Holding(r) /\ r \in finished /\ call[r] \in {"reading", "ended"}
    BY <1>0, <1>3 DEF LoadAndDelete, Reading, Holding, Attended
  <2>2. /\ UNCHANGED <<pr, got, call, clientVars>>
        /\ reader' = Resting \/ reader' = [at |-> "closing", id |-> r, frame |-> End]
    BY <1>3, <2>1 DEF LoadAndDelete, To
  <2>3. ~Holding(r)' /\ reader'.at \in {"idle", "closing"} /\ Given(r)' = Given(r)
    BY <2>2 DEF Holding, Busy, Given, Resting
  <2>4. InFull(r)'
    BY <2>1, <2>2, <2>3 DEF Attended, InFull, HoldsEnd, HoldsChunk, clientVars
  <2> QED BY <2>1, <2>2, <2>3, <2>4 DEF Attended, Underway, clientVars
<1>4. CASE FinishRequest(r)
  <2>1. /\ reader.at = "closing" /\ ~Holding(r) /\ r \in finished /\ call[r] \in {"reading", "ended"}
    BY <1>0, <1>4 DEF FinishRequest, Reading, Holding, Attended
  <2>2. UNCHANGED <<got, call, pending, clientVars>> /\ reader' = Resting /\ pr'[r] = Shut(pr[r])
    BY <1>0, <1>4, <2>1 DEF FinishRequest
  <2>3. ~Holding(r)' /\ ~Busy(r)' /\ Given(r)' = Given(r)
    BY <1>0, <2>2, ShutType DEF Holding, Busy, Given
  <2>4. InFull(r)'
    BY <2>1, <2>2, <2>3 DEF Attended, InFull, HoldsEnd, HoldsChunk, clientVars
  <2> QED BY <2>1, <2>2, <2>3, <2>4 DEF Attended, Underway, clientVars
<1>5. ~Abandon(r)
  BY DEF Abandon, GivesUp, Wanted
<1> QED BY <1>1, <1>2, <1>3, <1>4, <1>5 DEF Dispatch

LEMMA ReadAttended ==
  ASSUME TypeOK, NEW r \in Requests, Attended(r), NEW last \in BOOLEAN, ReadFrame(r, last)
  PROVE  Attended(r)'
<1>1. /\ ~Busy(r) /\ ~Holding(r) /\ r \notin finished /\ call[r] \in {"reading", "ended"}
      /\ sent[r] \in Nat /\ UNCHANGED <<pr, got, call, pending>>
  BY DEF ReadFrame, Answering, Holding, Busy, Resting, TypeOK
<1>2. Underway(r) /\ r \in pending /\ ~Over(pr[r]) /\ Chunks(Given(r), sent[r])
  BY <1>1 DEF Underway, Attended, InFull
<1>3. /\ reader' = [at |-> "locking", id |-> r, frame |-> IF last THEN End ELSE sent[r] + 1]
      /\ sent'[r] = (IF last THEN sent[r] ELSE sent[r] + 1)
      /\ finished' = (IF last THEN finished \cup {r} ELSE finished)
  BY <1>2 DEF ReadFrame, To, TypeOK
<1>4. /\ Busy(r)' /\ Holding(r)' /\ Given(r)' = Given(r) /\ reader'.at = "locking"
      /\ (HoldsEnd(r)' <=> last) /\ (HoldsChunk(r)' <=> ~last)
  BY <1>1, <1>3 DEF Busy, Holding, Given, Resting, HoldsEnd, HoldsChunk, End
<1>5. InFull(r)'
  BY <1>1, <1>2, <1>3, <1>4 DEF InFull
<1> QED BY <1>1, <1>2, <1>3, <1>4, <1>5 DEF Attended, Underway

\* Every step keeps every wanted request attended to.
LEMMA FramesStep == TypeOK /\ CleanupSees /\ FramesInv /\ [Next]_vars => FramesInv'
<1> SUFFICES ASSUME TypeOK, CleanupSees, FramesInv, [Next]_vars PROVE FramesInv'
  OBVIOUS
<1>0. /\ pr \in [Requests -> RequestSet] /\ got \in [Requests -> Seq(Frames)]
      /\ sent \in [Requests -> 0..MaxChunks]
      /\ call \in [Requests -> {"new", "stored", "writing", "failed", "closing", "reading", "ended", "gone"}]
      /\ watch \in [Requests -> {"off", "on", "cancel"}]
  BY DEF TypeOK
<1>1. ASSUME NEW r \in Requests, watch'[r] = "cancel" PROVE r \in done'
  <2>1. /\ done \subseteq done'
        /\ watch'[r] = watch[r] \/ watch'[r] = "on" \/ watch'[r] = "off" \/ r \in done
    <3>1. ASSUME NEW o \in Requests, Closes(o) \/ Leaves(o) \/ Take(o) \/ Dispatch(o)
          PROVE  <2>1
      BY <1>0, <3>1
         DEF Closes, CloseRequest, WatchCancels, CancelWithError, Leaves, Store, CheckOpen, Written,
             WriteFails, Withdraw, SeeClosed, SeeDone, Cancel, WatchDeletes, Visit, Take, Dispatch,
             Deliver, Push, Abandon, LoadAndDelete, FinishRequest
    <3>2. ASSUME NEW o \in Requests, NEW last \in BOOLEAN, ReadFrame(o, last) PROVE <2>1
      BY <3>2 DEF ReadFrame
    <3>3. CASE CloseSession \/ Range \/ CloseConnection \/ UNCHANGED vars
      BY <3>3 DEF CloseSession, Range, CloseConnection, vars
    <3> QED BY <3>1, <3>2, <3>3, NextCases
  <2> QED BY <1>1, <2>1 DEF FramesInv
<1>2. ASSUME NEW o \in Requests, Wanted(o)' PROVE Attended(o)'
  <2>1. CASE UNCHANGED <<pr, got, sent, call, finished, pending, reader, closed, done>>
    <3>1. Attended(o)
      BY <1>2, <2>1 DEF FramesInv, Wanted
    <3> QED BY <2>1, <3>1, ElsewhereAttended
  <2>2. ASSUME NEW r \in Requests, Calls(r) \/ Take(r) \/ SeeClosed(r) \/ SeeDone(r)
        PROVE  Attended(o)'
    <3>1. /\ UNCHANGED <<closed, done, reader, sent, finished>>
          /\ \A q \in Requests \ {r} : /\ pr'[q] = pr[q] /\ got'[q] = got[q] /\ call'[q] = call[q]
                                       /\ q \in pending => q \in pending'
      BY <1>0, <2>2 DEF Calls, Store, CheckOpen, Written, WriteFails, Withdraw, CloseRequest, Take,
                        SeeClosed, SeeDone, At, clientVars
    <3>2. Attended(o)
      BY <1>2, <3>1 DEF FramesInv, Wanted
    <3> QED BY <2>2, <3>1, <3>2, CallAttended, ElsewhereAttended
  <2>3. ASSUME NEW r \in Requests, Cancel(r) \/ Watch(r)
        PROVE  Attended(o)'
    <3>1. /\ r \in done' /\ done \subseteq done' /\ UNCHANGED <<closed, reader, sent, finished, call, got>>
          /\ \A q \in Requests \ {r} : pr'[q] = pr[q] /\ (q \in pending => q \in pending')
      BY <1>0, <2>3 DEF Cancel, Watch, WatchDeletes, WatchCancels, clientVars, FramesInv
    <3>2. Attended(o) /\ o # r
      BY <1>2, <3>1 DEF FramesInv, Wanted
    <3> QED BY <3>1, <3>2, ElsewhereAttended
  <2>4. ASSUME NEW r \in Requests, Visit(r) \/ CancelWithError(r)
        PROVE  FALSE
    BY <1>2, <2>4 DEF Visit, CancelWithError, CleanupSees, Wanted
  <2>5. ASSUME NEW r \in Requests, Dispatch(r)
        PROVE  Attended(o)'
    <3>1. /\ UNCHANGED <<closed, done, got, sent, finished, call>>
          /\ \A q \in Requests \ {r} : /\ pr'[q] = pr[q] /\ (q \in pending => q \in pending')
                                       /\ ~Busy(q) /\ ~Busy(q)'
      BY <1>0, <2>5 DEF Dispatch, Deliver, Push, Abandon, LoadAndDelete, FinishRequest, clientVars,
                        Reading, Busy, After, To, Resting
    <3>2. Attended(o) /\ Wanted(o)
      BY <1>2, <3>1 DEF FramesInv, Wanted
    <3> QED BY <2>5, <3>1, <3>2, DispatchAttended, ElsewhereAttended
  <2>6. ASSUME NEW r \in Requests, NEW last \in BOOLEAN, ReadFrame(r, last)
        PROVE  Attended(o)'
    <3>1. /\ UNCHANGED <<closed, done, got, pr, call, pending>>
          /\ \A q \in Requests \ {r} : /\ sent'[q] = sent[q] /\ (q \in finished' <=> q \in finished)
                                       /\ ~Busy(q) /\ ~Busy(q)'
      <4>1. reader = Resting /\ (reader' = Resting \/ (reader'.id = r /\ reader'.at = "locking"))
        BY <2>6 DEF ReadFrame, To, TypeOK, Resting
      <4> QED BY <1>0, <2>6, <4>1 DEF ReadFrame, Busy
    <3>2. Attended(o)
      BY <1>2, <3>1 DEF FramesInv, Wanted
    <3> QED BY <2>6, <3>1, <3>2, ReadAttended, ElsewhereAttended
  <2>7. CASE CloseSession
    BY <1>2, <2>7 DEF CloseSession, Wanted
  <2>8. CASE Range \/ CloseConnection \/ UNCHANGED vars
    BY <2>1, <2>8 DEF Range, CloseConnection, vars, clientVars
  <2> QED BY <2>2, <2>3, <2>4, <2>5, <2>6, <2>7, <2>8 DEF Next, Consume, Cleanup
<1> QED BY <1>1, <1>2 DEF FramesInv

\* As long as the session is open and a request is wanted, its consumer finds
\* every frame of the answer, in the client's order, however slow it is.
THEOREM NoFrameIsLost == Spec => []NoFrameLost
<1>1. Init => FramesInv
  <2> SUFFICES ASSUME Init PROVE FramesInv
    OBVIOUS
  <2>1. /\ reader = Resting /\ finished = {} /\ \A r \in Requests : watch[r] = "off"
        /\ \A r \in Requests : /\ sent[r] = 0 /\ call[r] = "new" /\ got[r] = <<>>
                               /\ pr[r].ch = <<>> /\ ~Over(pr[r])
    BY DEF Init, NewRequest, Over
  <2>2. Len(<<>> \o <<>>) = 0
    OBVIOUS
  <2>3. ASSUME NEW r \in Requests PROVE Chunks(Given(r), 0)
    <3>1. Given(r) = <<>> \o <<>>
      BY <2>1 DEF Given
    <3> QED BY <2>2, <3>1 DEF Chunks
  <2> QED BY <2>1, <2>3 DEF FramesInv, Attended, InFull, Busy, Holding, HoldsEnd, HoldsChunk, Underway
<1>2. TypeOK /\ FramesInv => NoFrameLost
  <2> SUFFICES ASSUME TypeOK, FramesInv, NEW r \in Requests, ~closed, r \notin done
               PROVE  /\ \A i \in DOMAIN Given(r) : Given(r)[i] \in {i, End}
                      /\ (Given(r) # <<>> /\ Given(r)[Len(Given(r))] = End)
                           => Len(Given(r)) = sent[r] + 1
    BY DEF NoFrameLost
  <2>1. PICK n \in Nat : Chunks(Given(r), n) \/ (n = sent[r] /\ Complete(Given(r), n))
    <3>1. sent[r] \in Nat /\ InFull(r)
      BY DEF FramesInv, Wanted, Attended, TypeOK
    <3>2. HoldsChunk(r) => sent[r] - 1 \in Nat
      <4>1. HoldsChunk(r) => reader.frame \in Frames \ {Failure} /\ reader.frame # End
        BY DEF HoldsChunk, Holding, Busy, TypeOK
      <4> QED BY <3>1, <4>1 DEF InFull, Frames, End, Failure
    <3> QED BY <3>1, <3>2 DEF InFull, HoldsEnd, HoldsChunk
  <2>2. Given(r) \in Seq(Frames) /\ DOMAIN Given(r) = 1..Len(Given(r)) /\ Len(Given(r)) \in Nat
    BY DEF Given, TypeOK, RequestSet
  <2>3. CASE Chunks(Given(r), n)
    <3>1. Len(Given(r)) = n /\ \A i \in 1..n : Given(r)[i] = i
      BY <2>3 DEF Chunks
    <3>2. Given(r) # <<>> => n # 0
      BY <2>2, <3>1
    <3> QED BY <2>1, <2>2, <3>1, <3>2 DEF End
  <2>4. CASE n = sent[r] /\ Complete(Given(r), n)
    <3>1. Len(Given(r)) = n + 1 /\ Given(r)[n + 1] = End /\ \A i \in 1..n : Given(r)[i] = i
      BY <2>4 DEF Complete
    <3> QED BY <2>1, <2>2, <2>4, <3>1
  <2> QED BY <2>1, <2>3, <2>4
<1>3. RelayInv => CleanupSees
  BY DEF RelayInv
<1> QED BY <1>1, <1>2, <1>3, FramesStep, TypeCorrect, RelayInvariant, PTL DEF Spec
=============================================================================
