------------------------------- MODULE WsRelay -------------------------------
(***************************************************************************)
(* One websocket session of the relay and the requests that go over it.    *)
(* The session's read loop delivers frames into a bounded channel per      *)
(* request and waits there when the channel is full; whoever reads the     *)
(* channel may be slow.  A request ends by a terminal frame, by its        *)
(* context, by a failed write or with the session, and each of these runs  *)
(* in a goroutine of its own.  session.pending is a sync.Map, so each of   *)
(* its operations is a step; a request's own fields change under its lock. *)
(***************************************************************************)
EXTENDS Integers, Sequences

CONSTANTS Requests,
          Cancellable, \* the requests whose context may end before its answer
          Capacity,   \* pendingChannelBuffer
          MaxChunks   \* bound on the frames of an answer before its last one

ASSUME RequestAssumption == Cancellable \subseteq Requests
ASSUME BoundAssumption == Capacity \in Nat \ {0} /\ MaxChunks \in Nat

VARIABLES closed,     \* the channel session.closed
          connected,  \* the connection, until cleanup closes it
          pending,    \* the ids in session.pending
          pr,         \* pendingRequest of each: its channel, closed, terminal
          done,       \* contexts that have ended
          call,       \* where session.request and the consumer of its channel are
          watch,      \* the function context.AfterFunc runs
          reader,     \* session.run
          cleaner,    \* session.cleanup
          sent,       \* chunks of each answer the client has sent ...
          finished,   \* ... and the answers whose terminal frame it has sent
          got,        \* what the consumer has taken out of the channel
          panicked    \* a goroutine has used a closed channel

vars == <<closed, connected, pending, pr, done, call, watch, reader, cleaner,
          sent, finished, got, panicked>>

clientVars == <<sent, finished>>

\* Frames: the chunks 1, 2, ... of an answer, its terminal frame, and the error
\* the relay itself puts in when it gives a request up.
End == 0
Failure == -1
Terminal == {End, Failure}

Resting == [at |-> "idle"]
NewRequest == [ch |-> <<>>, closed |-> FALSE, terminal |-> FALSE]

Init ==
  /\ closed = FALSE /\ connected = TRUE /\ pending = {}
  /\ pr = [r \in Requests |-> NewRequest]
  /\ done = {}
  /\ call = [r \in Requests |-> "new"] /\ watch = [r \in Requests |-> "off"]
  /\ reader = Resting /\ cleaner = [at |-> "idle", todo |-> {}]
  /\ sent = [r \in Requests |-> 0] /\ finished = {} /\ got = [r \in Requests |-> <<>>]
  /\ panicked = FALSE

-----------------------------------------------------------------------------
\* pendingRequest.  Only deliver keeps the lock from one step to the next.

\* Seeded fault: deliver gives the lock back before it waits.
NeverLocked(r) == FALSE
Locked(r) == reader.at = "selecting" /\ reader.id = r

\* close and cancel; neither does anything the second time.
Shut(p) == [p EXCEPT !.closed = TRUE]

\* Seeded fault: cancelWithError forgets that the answer is complete.
WithErrorAlways(p) == IF Len(p.ch) < Capacity THEN Append(p.ch, Failure) ELSE Append(Tail(p.ch), Failure)

\* cancelWithError: a full channel loses its oldest frame to the error.
WithError(p) ==
  IF p.terminal THEN p.ch
  ELSE IF Len(p.ch) < Capacity THEN Append(p.ch, Failure) ELSE Append(Tail(p.ch), Failure)
ShutWithError(p) == IF p.closed THEN p ELSE Shut([p EXCEPT !.ch = WithError(p)])

-----------------------------------------------------------------------------
\* session.request, then NonStream or Stream.

At(r, from, to) == call[r] = from /\ call' = [call EXCEPT ![r] = to]

\* LoadOrStore and AfterFunc; a context that has ended runs its function at once,
\* which is no sooner than after the store.
Store(r) ==
  /\ At(r, "new", "stored")
  /\ pending' = pending \cup {r} /\ watch' = [watch EXCEPT ![r] = "on"]
  /\ UNCHANGED <<closed, connected, pr, done, reader, cleaner, clientVars, got, panicked>>

\* Seeded fault: send does not look whether the session is closed.
MayWriteAnyway == TRUE
MayWrite == ~closed

CheckOpen(r) ==
  /\ At(r, "stored", IF MayWrite THEN "writing" ELSE "failed")
  /\ UNCHANGED <<closed, connected, pending, pr, done, watch, reader, cleaner, clientVars, got, panicked>>

\* The client may answer before request has returned; that is a consumer which
\* has not begun to read.
Written(r) ==
  /\ connected /\ At(r, "writing", "reading")
  /\ UNCHANGED <<closed, connected, pending, pr, done, watch, reader, cleaner, clientVars, got, panicked>>
WriteFails(r) ==
  /\ At(r, "writing", "failed")
  /\ UNCHANGED <<closed, connected, pending, pr, done, watch, reader, cleaner, clientVars, got, panicked>>

Withdraw(r) ==
  /\ At(r, "failed", IF r \in pending THEN "closing" ELSE "gone")
  /\ pending' = pending \ {r}
  /\ UNCHANGED <<closed, connected, pr, done, watch, reader, cleaner, clientVars, got, panicked>>
CloseRequest(r) ==
  /\ At(r, "closing", "gone") /\ ~Locked(r)
  /\ pr' = [pr EXCEPT ![r] = Shut(@)]
  /\ UNCHANGED <<closed, connected, pending, done, watch, reader, cleaner, clientVars, got, panicked>>

\* The consumer takes a frame; it stops at a terminal one.
Take(r) ==
  /\ pr[r].ch # <<>>
  /\ At(r, "reading", IF Head(pr[r].ch) \in Terminal THEN "ended" ELSE "reading")
  /\ pr' = [pr EXCEPT ![r].ch = Tail(@)]
  /\ got' = [got EXCEPT ![r] = Append(@, Head(pr[r].ch))]
  /\ UNCHANGED <<closed, connected, pending, done, watch, reader, cleaner, clientVars, panicked>>
SeeClosed(r) ==
  /\ pr[r].ch = <<>> /\ pr[r].closed
  /\ At(r, "reading", "ended")
  /\ UNCHANGED <<closed, connected, pending, pr, done, watch, reader, cleaner, clientVars, got, panicked>>
SeeDone(r) ==
  /\ r \in done
  /\ At(r, "reading", "ended")
  /\ UNCHANGED <<closed, connected, pending, pr, done, watch, reader, cleaner, clientVars, got, panicked>>

Cancel(r) ==
  /\ r \in Cancellable \ done /\ done' = done \cup {r}
  /\ UNCHANGED <<closed, connected, pending, pr, call, watch, reader, cleaner, clientVars, got, panicked>>

WatchDeletes(r) ==
  /\ watch[r] = "on" /\ r \in done
  /\ watch' = [watch EXCEPT ![r] = IF r \in pending THEN "cancel" ELSE "off"]
  /\ pending' = pending \ {r}
  /\ UNCHANGED <<closed, connected, pr, done, call, reader, cleaner, clientVars, got, panicked>>
WatchCancels(r) ==
  /\ watch[r] = "cancel" /\ ~Locked(r)
  /\ watch' = [watch EXCEPT ![r] = "off"]
  /\ pr' = [pr EXCEPT ![r] = Shut(@)]
  /\ UNCHANGED <<closed, connected, pending, done, call, reader, cleaner, clientVars, got, panicked>>

-----------------------------------------------------------------------------
\* session.run: one frame at a time.

Reading(r, at) == reader.at = at /\ reader.id = r
To(r, at, frame) == reader' = [at |-> at, id |-> r, frame |-> frame]
\* Only after a terminal frame is there more to do than read the next one.
After(r, at) == IF reader.frame = End THEN To(r, at, End) ELSE reader' = Resting

\* The client has the request and goes on answering it, wanted or not.
Answering(r) == call[r] \in {"reading", "ended"} /\ r \notin finished

ReadFrame(r, last) ==
  /\ reader.at = "idle" /\ connected /\ Answering(r)
  /\ last \/ sent[r] < MaxChunks
  /\ sent' = [sent EXCEPT ![r] = IF last THEN @ ELSE @ + 1]
  /\ finished' = IF last THEN finished \cup {r} ELSE finished
  /\ IF r \in pending THEN To(r, "locking", IF last THEN End ELSE sent[r] + 1)
                      ELSE UNCHANGED reader
  /\ UNCHANGED <<closed, connected, pending, pr, done, call, watch, cleaner, got, panicked>>

\* The lock is taken; a request that is over refuses the frame.
Deliver(r) ==
  /\ Reading(r, "locking")
  /\ IF pr[r].closed \/ pr[r].terminal THEN After(r, "refused") ELSE To(r, "selecting", reader.frame)
  /\ UNCHANGED <<closed, connected, pending, pr, done, call, watch, cleaner, clientVars, got, panicked>>

Push(r) ==
  /\ Reading(r, "selecting") /\ Len(pr[r].ch) < Capacity
  /\ panicked' = (panicked \/ pr[r].closed)
  /\ pr' = [pr EXCEPT ![r].ch = Append(@, reader.frame), ![r].terminal = reader.frame = End]
  /\ After(r, "delivered")
  /\ UNCHANGED <<closed, connected, pending, done, call, watch, cleaner, clientVars, got>>

\* Seeded faults: the wait does not end with the session, does not end with the
\* context, or is no wait at all.
GivesUpIfCancelled(r) == r \in done
GivesUpIfClosed(r) == closed
GivesUpIfFull(r) == closed \/ r \in done \/ Len(pr[r].ch) = Capacity
\* The select takes any case that is ready, so also when there is room.
GivesUp(r) == closed \/ r \in done

Abandon(r) ==
  /\ Reading(r, "selecting") /\ GivesUp(r)
  /\ After(r, "refused")
  /\ UNCHANGED <<closed, connected, pending, pr, done, call, watch, cleaner, clientVars, got, panicked>>

\* After its terminal frame a request is taken out, whether that was delivered.
LoadAndDelete(r) ==
  /\ Reading(r, "delivered") \/ Reading(r, "refused")
  /\ IF r \in pending THEN To(r, IF reader.at = "delivered" THEN "closing" ELSE "failing", End)
                      ELSE reader' = Resting
  /\ pending' = pending \ {r}
  /\ UNCHANGED <<closed, connected, pr, done, call, watch, cleaner, clientVars, got, panicked>>
FinishRequest(r) ==
  /\ Reading(r, "closing") \/ Reading(r, "failing")
  /\ pr' = [pr EXCEPT ![r] = IF reader.at = "closing" THEN Shut(@) ELSE ShutWithError(@)]
  /\ reader' = Resting
  /\ UNCHANGED <<closed, connected, pending, done, call, watch, cleaner, clientVars, got, panicked>>

-----------------------------------------------------------------------------
\* session.cleanup, once: from the read loop after an error, from the heartbeat
\* after a failed ping, from Manager.Stop or for a connection that replaces this.

CloseSession ==
  /\ cleaner.at = "idle"
  /\ closed' = TRUE /\ cleaner' = [at |-> "range", todo |-> {}]
  /\ UNCHANGED <<connected, pending, pr, done, call, watch, reader, clientVars, got, panicked>>

\* sync.Map.Range sees what is stored when it starts, and may see later ones.
Range ==
  /\ cleaner.at = "range"
  /\ cleaner' = [at |-> "visit", todo |-> pending]
  /\ UNCHANGED <<closed, connected, pending, pr, done, call, watch, reader, clientVars, got, panicked>>
Visit(r) ==
  /\ cleaner.at = "visit" /\ r \in cleaner.todo \cup pending
  /\ cleaner' = IF r \in pending
                  THEN [at |-> "cancel", id |-> r, todo |-> cleaner.todo \ {r}]
                  ELSE [at |-> "visit", todo |-> cleaner.todo \ {r}]
  /\ pending' = pending \ {r}
  /\ UNCHANGED <<closed, connected, pr, done, call, watch, reader, clientVars, got, panicked>>
CancelWithError(r) ==
  /\ cleaner.at = "cancel" /\ cleaner.id = r /\ ~Locked(r)
  /\ pr' = [pr EXCEPT ![r] = ShutWithError(@)]
  /\ cleaner' = [at |-> "visit", todo |-> cleaner.todo]
  /\ UNCHANGED <<closed, connected, pending, done, call, watch, reader, clientVars, got, panicked>>
CloseConnection ==
  /\ cleaner.at = "visit" /\ cleaner.todo = {}
  /\ connected' = FALSE /\ cleaner' = [at |-> "done", todo |-> {}]
  /\ UNCHANGED <<closed, pending, pr, done, call, watch, reader, clientVars, got, panicked>>

-----------------------------------------------------------------------------
Calls(r) == \/ Store(r) \/ CheckOpen(r) \/ Written(r) \/ WriteFails(r)
            \/ Withdraw(r) \/ CloseRequest(r)
Consume(r) == Take(r) \/ SeeClosed(r) \/ SeeDone(r)
Watch(r) == WatchDeletes(r) \/ WatchCancels(r)
Dispatch(r) == Deliver(r) \/ Push(r) \/ Abandon(r) \/ LoadAndDelete(r) \/ FinishRequest(r)
Cleanup == Range \/ CloseConnection \/ \E r \in Requests : Visit(r) \/ CancelWithError(r)

Next == \/ \E r \in Requests : \/ Calls(r) \/ Consume(r) \/ Cancel(r) \/ Watch(r) \/ Dispatch(r)
                               \/ \E last \in BOOLEAN : ReadFrame(r, last)
        \/ CloseSession \/ Cleanup

Spec == Init /\ [][Next]_vars

\* Goroutines of the relay go on; that a write ends is its deadline.  Neither
\* the client nor the consumer has to do anything, and nobody has to cancel.
Fairness ==
  /\ WF_vars(Cleanup)
  /\ \A r \in Requests : /\ WF_vars(Calls(r) /\ call[r] # "new") /\ WF_vars(Watch(r))
                         /\ WF_vars(Dispatch(r)) /\ WF_vars(SeeClosed(r) \/ SeeDone(r))
FairSpec == Spec /\ Fairness

-----------------------------------------------------------------------------
Frames == {Failure, End} \cup 1..MaxChunks
RequestSet == [ch : Seq(Frames), closed : BOOLEAN, terminal : BOOLEAN]

\* Types of every variable; no channel ever holds more than it can.
TypeOK ==
  /\ closed \in BOOLEAN /\ connected \in BOOLEAN /\ panicked \in BOOLEAN
  /\ pending \subseteq Requests /\ done \subseteq Requests /\ finished \subseteq Requests
  /\ pr \in [Requests -> RequestSet]
  /\ \A r \in Requests : Len(pr[r].ch) <= Capacity
  /\ call \in [Requests -> {"new", "stored", "writing", "failed", "closing", "reading", "ended", "gone"}]
  /\ watch \in [Requests -> {"off", "on", "cancel"}]
  /\ reader \in {Resting} \cup
       [at : {"locking", "selecting", "delivered", "refused", "closing", "failing"},
        id : Requests, frame : Frames \ {Failure}]
  /\ cleaner \in [at : {"idle", "range", "visit", "done"}, todo : SUBSET Requests]
                \cup [at : {"cancel"}, id : Requests, todo : SUBSET Requests]
  /\ sent \in [Requests -> 0..MaxChunks] /\ got \in [Requests -> Seq(Frames)]

\* No goroutine sends on a channel another one has closed: the read loop waits
\* for room with the lock, and whoever closes takes it.
NoPanic == ~panicked

\* What a consumer has been given, and what it will still find.
Given(r) == got[r] \o pr[r].ch

\* An answer ends once: nothing follows its terminal frame, be it the client's
\* or the error of a session that closes at the same moment.
OneEnding ==
  \A r \in Requests : \A i \in DOMAIN Given(r) : Given(r)[i] \in Terminal => i = Len(Given(r))

\* A slow consumer delays frames and loses none: as long as the session is open
\* and the request is wanted, it finds every frame, in the client's order.
NoFrameLost ==
  \A r \in Requests : ~closed /\ r \notin done =>
    /\ \A i \in DOMAIN Given(r) : Given(r)[i] \in {i, End}
    /\ (Given(r) # <<>> /\ Given(r)[Len(Given(r))] = End) => Len(Given(r)) = sent[r] + 1

\* After cleanup nobody waits for an answer that cannot come: a request stored
\* behind the back of its Range is one that has yet to see it closed.
NoOrphan ==
  cleaner.at = "done" =>
    \A r \in pending : call[r] \in {"stored", "failed"}

\* However full the channels are and however little is read from them, a closed
\* session lets go of its read loop, its requests and itself.
ClosedLetsGo == closed ~> (cleaner.at = "done" /\ reader = Resting /\ pending = {})

\* So does a request whose context has ended, while others stay blocked.
CancelledLetsGo ==
  \A r \in Cancellable :
    (r \in done /\ call[r] = "reading") ~> (r \notin pending /\ ~Locked(r) /\ call[r] = "ended")

-----------------------------------------------------------------------------
\* Why: who holds a request's lock, and what a request that has ended still holds.

Over(p) == p.closed \/ p.terminal
HeldOpen == \A r \in Requests : Locked(r) => ~Over(pr[r])

\* Frames after which nothing may come are last, in the channel and outside.
LastIn(q) == \A i \in DOMAIN q : q[i] \in Terminal => i = Len(q)
HasEnding(q) == \E i \in DOMAIN q : q[i] \in Terminal
EndsLast(p, g) ==
  /\ LastIn(p.ch) /\ LastIn(g)
  /\ HasEnding(p.ch) \/ HasEnding(g) => Over(p)
  /\ HasEnding(g) => p.ch = <<>>
EndingsLast == \A r \in Requests : EndsLast(pr[r], got[r])

\* What cleanup has still to visit includes every request whose write it did
\* not stop.
CleanupSees ==
  /\ cleaner.at # "idle" => closed
  /\ cleaner.at = "done" => cleaner.todo = {}
  /\ cleaner.at \in {"visit", "cancel", "done"} =>
       \A r \in pending \ cleaner.todo : call[r] \in {"stored", "failed"}

RelayInv == NoPanic /\ HeldOpen /\ EndingsLast /\ CleanupSees

=============================================================================
