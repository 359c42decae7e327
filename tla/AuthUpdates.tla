---------------------------- MODULE AuthUpdates -----------------------------
(***************************************************************************)
(* The way of a credential from its file to the service: the watcher's     *)
(* event handler, a full scan that runs beside it, the hook that publishes *)
(* what the management API has saved, credentials that exist only while a  *)
(* websocket is connected, the dispatch queue, and the consumer in the     *)
(* service.  clientsMutex and authRescanMu are held for the sections that  *)
(* are one action here; files change at any time in between.               *)
(***************************************************************************)
EXTENDS Integers, Sequences, SequencesExt

CONSTANTS Files,        \* auth files; each defines one credential
          Runtime,      \* credentials of websocket channels
          MaxChanges,   \* bound on file changes, saves, connects and disconnects
          MaxReloads,   \* bound on configuration reloads
          Overlap       \* whether a file is changed while the hook publishes it

ASSUME IdAssumption == Files \cap Runtime = {} /\ IsFiniteSet(Files \cup Runtime)
ASSUME BoundAssumption == MaxChanges \in Nat /\ MaxReloads \in Nat /\ Overlap \in BOOLEAN

\* Every change of a file brings a new content, a number from 1.
None == 0       \* no file, no credential, no hash
Torn == -1      \* a file that is empty or incomplete
Blank == -1     \* a hash made invalid: the file is known, but matches nothing
Online == 1     \* the credential of a connected channel

VARIABLES disk, events,          \* the auth directory, fsnotify's channel
          lastRemove,            \* files with a removal in the debounce window
          lastAuthHashes, fileAuthsByPath, currentAuths, runtimeAuths,
          log,                   \* authRevisions, and what each revision was
          handler, scan, hook,   \* where the goroutines are
          out,                   \* updates stamped and not dispatched yet
          pending, queue,        \* pendingUpdates; what the consumer will receive
          processed, service,    \* Service.authRevisions; the core manager
          changes, reloads       \* how many of the bounded events occurred

fileVars == <<disk, events>>
stateVars == <<lastAuthHashes, fileAuthsByPath, currentAuths, runtimeAuths, log>>
queueVars == <<pending, queue>>
serviceVars == <<processed, service>>
vars == <<fileVars, lastRemove, stateVars, handler, scan, hook, out, queueVars, serviceVars, changes, reloads>>

Ids == Files \cup Runtime
Procs == {"handler", "scan", "hook", "connect", "disconnect"}
Contents == 1..MaxChanges
Values == {None, Online} \cup Contents

Counting == changes < MaxChanges /\ changes' = changes + 1

\* Where the goroutines are when they have nothing to do.
HandlerIdle == [at |-> "idle", file |-> None, data |-> None]
ScanIdle == [at |-> "idle", found |-> <<>>, stale |-> {}, force |-> FALSE]
HookIdle == [at |-> "idle", file |-> None, data |-> None, rev |-> 0]

Init ==
  /\ disk = [f \in Files |-> None] /\ events = <<>>
  /\ lastRemove = {}
  /\ lastAuthHashes = [f \in Files |-> None] /\ fileAuthsByPath = {}
  /\ currentAuths = [i \in Ids |-> None] /\ runtimeAuths = [r \in Runtime |-> None]
  /\ log = [i \in Ids |-> <<>>]
  /\ handler = HandlerIdle
  /\ scan = [ScanIdle EXCEPT !.at = "rescan"]
  /\ hook = HookIdle
  /\ out = [p \in Procs |-> {}]
  /\ pending = {} /\ queue = <<>>
  /\ processed = [i \in Ids |-> 0] /\ service = [i \in Ids |-> None]
  /\ changes = 0 /\ reloads = 0

-----------------------------------------------------------------------------
\* The files, changed from outside.

Change(f, content, op) ==
  /\ Counting
  /\ Overlap \/ hook.at = "idle"
  /\ disk' = [disk EXCEPT ![f] = content]
  /\ events' = Append(events, [file |-> f, op |-> op])
  /\ UNCHANGED <<lastRemove, stateVars, handler, scan, hook, out, queueVars, serviceVars, reloads>>

WriteFile(f) == Change(f, changes + 1, "write")
TruncateFile(f) == disk[f] # Torn /\ Change(f, Torn, "write")
RemoveFile(f) == disk[f] # None /\ Change(f, None, "remove")

NotMissing(content) == content # None     \* a seeded fault: an empty file counts
Readable(content) == content \notin {None, Torn}

-----------------------------------------------------------------------------
\* Stamping: each update of a credential gets its next revision.

Revision(i) == Len(log[i])
Update(i, rev, value) == [id |-> i, rev |-> rev, value |-> value]

\* Publish value[i] for every i of I, to be dispatched by process p.
stampAuthUpdatesLocked(p, I, value) ==
  /\ log' = [i \in Ids |-> IF i \in I THEN Append(log[i], value[i]) ELSE log[i]]
  /\ out' = [out EXCEPT ![p] = {Update(i, Revision(i) + 1, value[i]) : i \in I}]

\* The scans that are under way when credentials change must not publish over them.
ScanStale(I) == scan' = IF scan.at \in {"reading", "committing"} THEN [scan EXCEPT !.stale = @ \cup I] ELSE scan

observeAuthFile(f) ==
  /\ ScanStale({f})
  /\ lastAuthHashes' = IF scan.at \in {"reading", "committing"} /\ lastAuthHashes[f] # None
                         THEN [lastAuthHashes EXCEPT ![f] = Blank] ELSE lastAuthHashes

-----------------------------------------------------------------------------
\* The event handler, which holds authRescanMu from the observation on.

HandleEvent ==
  /\ handler.at = "idle" /\ out["handler"] = {} /\ scan.at # "rescanning"
  /\ events # <<>> /\ events' = Tail(events)
  /\ LET e == Head(events) IN
       /\ observeAuthFile(e.file)
       /\ IF e.op = "remove" /\ e.file \in lastRemove
            THEN UNCHANGED <<handler, lastRemove>>
            ELSE /\ handler' = [handler EXCEPT !.at = IF e.op = "remove" THEN "removed" ELSE "comparing",
                                               !.file = e.file]
                 /\ lastRemove' = IF e.op = "remove" THEN lastRemove \cup {e.file} ELSE lastRemove
  /\ UNCHANGED <<disk, fileAuthsByPath, currentAuths, runtimeAuths, log, hook, out, queueVars, serviceVars, changes, reloads>>

DebounceWindowPasses(f) ==
  /\ f \in lastRemove /\ lastRemove' = lastRemove \ {f}
  /\ UNCHANGED <<fileVars, stateVars, handler, scan, hook, out, queueVars, serviceVars, changes, reloads>>

Step(at) == handler' = [handler EXCEPT !.at = at]

\* After a pause: the file may be back, or was never known.
CheckRemoved ==
  /\ handler.at = "removed"
  /\ IF disk[handler.file] # None THEN Step("comparing") /\ UNCHANGED <<scan, lastAuthHashes>>
     ELSE IF lastAuthHashes[handler.file] # None THEN Step("removing") /\ observeAuthFile(handler.file)
     ELSE handler' = HandlerIdle /\ UNCHANGED <<scan, lastAuthHashes>>
  /\ UNCHANGED <<fileVars, lastRemove, fileAuthsByPath, currentAuths, runtimeAuths, log, hook, out, queueVars, serviceVars, changes, reloads>>

\* authFileUnchanged, and the observation addOrUpdateClientLocked begins with.
Compare ==
  /\ handler.at = "comparing"
  /\ LET f == handler.file IN
       IF Readable(disk[f]) /\ lastAuthHashes[f] = disk[f]
         THEN handler' = HandlerIdle /\ UNCHANGED <<scan, lastAuthHashes>>
         ELSE Step("reading") /\ observeAuthFile(f)
  /\ UNCHANGED <<fileVars, lastRemove, fileAuthsByPath, currentAuths, runtimeAuths, log, hook, out, queueVars, serviceVars, changes, reloads>>

ReadClient ==
  /\ handler.at = "reading"
  /\ LET f == handler.file IN
       IF Readable(disk[f]) /\ lastAuthHashes[f] # disk[f]
         THEN /\ handler' = [handler EXCEPT !.at = "updating", !.data = disk[f]]
              /\ lastAuthHashes' = [lastAuthHashes EXCEPT ![f] = disk[f]]
         ELSE handler' = HandlerIdle /\ UNCHANGED lastAuthHashes
  /\ UNCHANGED <<fileVars, lastRemove, fileAuthsByPath, currentAuths, runtimeAuths, log, scan, hook, out, queueVars, serviceVars, changes, reloads>>

\* The second critical section of addOrUpdateClientLocked.
UpdateClient ==
  /\ handler.at = "updating"
  /\ LET f == handler.file
         changed == IF currentAuths[f] # handler.data THEN {f} ELSE {} IN
       /\ fileAuthsByPath' = fileAuthsByPath \cup {f}
       /\ currentAuths' = [currentAuths EXCEPT ![f] = handler.data]
       /\ stampAuthUpdatesLocked("handler", changed, [i \in changed |-> handler.data])
       /\ ScanStale(changed)
  /\ handler' = HandlerIdle
  /\ UNCHANGED <<fileVars, lastRemove, lastAuthHashes, runtimeAuths, hook, queueVars, serviceVars, changes, reloads>>

RemoveClient ==
  /\ handler.at = "removing"
  /\ LET f == handler.file
         gone == {f} \cap fileAuthsByPath IN
       /\ lastAuthHashes' = [lastAuthHashes EXCEPT ![f] = None]
       /\ fileAuthsByPath' = fileAuthsByPath \ {f}
       /\ currentAuths' = [i \in Ids |-> IF i \in gone THEN None ELSE currentAuths[i]]
       /\ stampAuthUpdatesLocked("handler", gone, [i \in gone |-> None])
       /\ ScanStale(gone)
  /\ handler' = HandlerIdle
  /\ UNCHANGED <<fileVars, lastRemove, runtimeAuths, hook, queueVars, serviceVars, changes, reloads>>

-----------------------------------------------------------------------------
\* reloadClients: the first one caches the hashes, under authRescanMu; later
\* ones forget the credentials whose excluded models have changed.

RescanRead ==
  /\ scan.at = "rescan" /\ handler.at = "idle" /\ out["handler"] = {}
  /\ scan' = [scan EXCEPT !.at = "rescanning", !.found = disk]
  /\ UNCHANGED <<fileVars, lastRemove, stateVars, handler, hook, out, queueVars, serviceVars, changes, reloads>>

RescanCommit ==
  /\ scan.at = "rescanning"
  /\ lastAuthHashes' = [f \in Files |-> IF Readable(scan.found[f]) THEN scan.found[f] ELSE None]
  /\ fileAuthsByPath' = {f \in Files : Readable(scan.found[f])}
  /\ scan' = [scan EXCEPT !.at = "begin", !.found = <<>>]
  /\ UNCHANGED <<fileVars, lastRemove, currentAuths, runtimeAuths, log, handler, hook, out, queueVars, serviceVars, changes, reloads>>

Reload(affected, force) ==
  /\ scan.at = "idle" /\ out["scan"] = {}
  /\ reloads < MaxReloads /\ reloads' = reloads + 1
  /\ currentAuths' = [i \in Ids |-> IF i \in affected THEN None ELSE currentAuths[i]]
  /\ scan' = [scan EXCEPT !.at = "begin", !.force = force]
  /\ UNCHANGED <<fileVars, lastRemove, lastAuthHashes, fileAuthsByPath, runtimeAuths, log, handler, hook, out, queueVars, serviceVars, changes>>

\* refreshAuthState, in three parts: a snapshot of the revisions, the files,
\* and the comparison with what changed meanwhile.
ScanBegin ==
  /\ scan.at = "begin"
  /\ scan' = [scan EXCEPT !.at = "reading"]
  /\ UNCHANGED <<fileVars, lastRemove, stateVars, handler, hook, out, queueVars, serviceVars, changes, reloads>>

ScanRead ==
  /\ scan.at = "reading"
  /\ scan' = [scan EXCEPT !.at = "committing", !.found = disk]
  /\ UNCHANGED <<fileVars, lastRemove, stateVars, handler, hook, out, queueVars, serviceVars, changes, reloads>>

NothingChanged == {}     \* a seeded fault: the scan publishes what it has read
changedDuringScan == scan.stale

newState ==
  [i \in Ids |-> IF i \in Runtime THEN runtimeAuths[i]
                 ELSE IF i \in changedDuringScan THEN currentAuths[i]
                 ELSE IF Readable(scan.found[i]) THEN scan.found[i] ELSE None]

prepareAuthUpdatesLocked ==
  /\ scan.at = "committing"
  /\ LET I == {i \in Ids : newState[i] # currentAuths[i] \/ (scan.force /\ newState[i] # None)} IN
       stampAuthUpdatesLocked("scan", I, newState)
  /\ currentAuths' = newState
  /\ scan' = ScanIdle
  /\ UNCHANGED <<fileVars, lastRemove, lastAuthHashes, fileAuthsByPath, runtimeAuths, handler, hook, queueVars, serviceVars, changes, reloads>>

-----------------------------------------------------------------------------
\* The management API saves a credential, publishes it and applies it inline.

Save(f) ==
  /\ hook.at = "idle" /\ out["hook"] = {}
  /\ Counting
  /\ disk' = [disk EXCEPT ![f] = changes + 1]
  /\ events' = Append(events, [file |-> f, op |-> "write"])
  /\ hook' = [hook EXCEPT !.at = "saved", !.file = f, !.data = changes + 1]
  /\ UNCHANGED <<lastRemove, stateVars, handler, scan, out, queueVars, serviceVars, reloads>>

dispatchPersistedAuthUpdate ==
  /\ hook.at = "saved"
  /\ LET f == hook.file IN
       /\ fileAuthsByPath' = fileAuthsByPath \cup {f}
       /\ currentAuths' = [currentAuths EXCEPT ![f] = hook.data]
       /\ stampAuthUpdatesLocked("hook", {f}, [i \in {f} |-> hook.data])
       /\ ScanStale({f})
       /\ hook' = [hook EXCEPT !.at = "applying", !.rev = Revision(f) + 1]
  /\ UNCHANGED <<fileVars, lastRemove, lastAuthHashes, runtimeAuths, handler, queueVars, serviceVars, changes, reloads>>

-----------------------------------------------------------------------------
\* A websocket channel connects or disconnects: emitAuthUpdate.

dispatchRuntimeAuthUpdate(p, r, value) ==
  /\ out[p] = {}
  /\ Counting
  /\ runtimeAuths' = [runtimeAuths EXCEPT ![r] = value]
  /\ currentAuths' = [currentAuths EXCEPT ![r] = value]
  /\ stampAuthUpdatesLocked(p, {r}, [i \in {r} |-> value])
  /\ ScanStale({r})
  /\ UNCHANGED <<fileVars, lastRemove, lastAuthHashes, fileAuthsByPath, handler, hook, queueVars, serviceVars, reloads>>

wsOnConnected(r) == /\ service[r] = None /\ runtimeAuths[r] = None
                    /\ dispatchRuntimeAuthUpdate("connect", r, Online)
wsOnDisconnected(r) == runtimeAuths[r] # None /\ dispatchRuntimeAuthUpdate("disconnect", r, None)

-----------------------------------------------------------------------------
\* The queue: an update overtaken since it was stamped is dropped, one that
\* waits is replaced by a newer one of its credential.

Overtaken(u) == u.rev < Revision(u.id)
FirstOf(U, V) == U \cup {v \in V : ~ \E u \in U : v.id = u.id}     \* a seeded fault
NewerOf(U, V) == {u \in U : ~ \E v \in V : v.id = u.id} \cup V

dispatchAuthUpdates(p) ==
  /\ out[p] # {}
  /\ pending' = NewerOf(pending, {u \in out[p] : ~Overtaken(u)})
  /\ out' = [out EXCEPT ![p] = {}]
  /\ UNCHANGED <<fileVars, lastRemove, stateVars, handler, scan, hook, queue, serviceVars, changes, reloads>>

\* The order between credentials does not matter and is left open.
nextPendingBatch ==
  /\ pending # {} /\ pending' = {}
  /\ queue' = queue \o SetToSeq(pending)
  /\ UNCHANGED <<fileVars, lastRemove, stateVars, handler, scan, hook, out, serviceVars, changes, reloads>>

\* Of each credential the last update counts that is newer than what was
\* processed before.
AllOf(U) == U     \* a seeded fault: revisions are not compared
Fresh(U) == {u \in U : u.rev > processed[u.id]}
Newest(U, i) == CHOOSE u \in U : u.id = i /\ \A v \in U : v.id = i => v.rev <= u.rev

handleAuthUpdates(U) ==
  LET I == {u.id : u \in Fresh(U)} IN
    /\ processed' = [i \in Ids |-> IF i \in I THEN Newest(U, i).rev ELSE processed[i]]
    /\ service' = [i \in Ids |-> IF i \in I THEN Newest(U, i).value ELSE service[i]]

\* The consumer drains what has arrived by now; waiting for the lock, it may
\* come to apply it later, so what it applies is any first part of the queue.
consumeAuthUpdates(n) ==
  /\ n \in 1..Len(queue)
  /\ handleAuthUpdates({queue[k] : k \in 1..n})
  /\ queue' = SubSeq(queue, n + 1, Len(queue))
  /\ UNCHANGED <<fileVars, lastRemove, stateVars, handler, scan, hook, out, pending, changes, reloads>>

\* The hook's own turn, after its update was dispatched.
HookApply ==
  /\ hook.at = "applying" /\ out["hook"] = {}
  /\ handleAuthUpdates({Update(hook.file, hook.rev, hook.data)})
  /\ hook' = HookIdle
  /\ UNCHANGED <<fileVars, lastRemove, stateVars, handler, scan, out, queueVars, changes, reloads>>

-----------------------------------------------------------------------------
Outside == \E f \in Files : WriteFile(f) \/ TruncateFile(f) \/ RemoveFile(f) \/ DebounceWindowPasses(f)
Handler == CheckRemoved \/ Compare \/ ReadClient \/ UpdateClient \/ RemoveClient
Scan == RescanRead \/ RescanCommit \/ ScanBegin \/ ScanRead \/ prepareAuthUpdatesLocked
Hook == dispatchPersistedAuthUpdate \/ HookApply
Channel == \E r \in Runtime : wsOnConnected(r) \/ wsOnDisconnected(r)
Consume == \E n \in 1..Len(queue) : consumeAuthUpdates(n)

Next == \/ Outside \/ HandleEvent \/ Handler \/ Scan \/ Hook \/ Channel
        \/ (\E affected \in SUBSET Files, force \in BOOLEAN : Reload(affected, force))
        \/ (\E f \in Files : Save(f))
        \/ (\E p \in Procs : dispatchAuthUpdates(p))
        \/ nextPendingBatch \/ Consume

Spec == Init /\ [][Next]_vars

\* Goroutines go on once they have begun; events are read as they come.  The
\* rescan waits for a mutex the handler takes again and again.
Fairness == /\ WF_vars(HandleEvent) /\ WF_vars(Handler) /\ SF_vars(RescanRead) /\ WF_vars(Scan)
            /\ WF_vars(Hook) /\ \A p \in Procs : WF_vars(dispatchAuthUpdates(p))
            /\ WF_vars(nextPendingBatch) /\ WF_vars(Consume)
FairSpec == Spec /\ Fairness

-----------------------------------------------------------------------------
\* Types of every variable, for the proofs and as a check on the model.
Updates == [id : Ids, rev : Nat, value : Values]

TypeOK ==
  /\ disk \in [Files -> Contents \cup {None, Torn}]
  /\ changes \in 0..MaxChanges /\ reloads \in 0..MaxReloads
  /\ events \in Seq([file : Files, op : {"write", "remove"}])
  /\ lastRemove \subseteq Files /\ fileAuthsByPath \subseteq Files
  /\ lastAuthHashes \in [Files -> Contents \cup {None, Blank}]
  /\ currentAuths \in [Ids -> Values] /\ runtimeAuths \in [Runtime -> Values]
  /\ log \in [Ids -> Seq(Values)]
  /\ handler.at \in {"idle", "removed", "comparing", "reading", "updating", "removing"}
  /\ scan.at \in {"idle", "rescan", "rescanning", "begin", "reading", "committing"}
  /\ hook.at \in {"idle", "saved", "applying"}
  /\ out \in [Procs -> SUBSET Updates] /\ pending \subseteq Updates
  /\ queue \in Seq(Updates)
  /\ processed \in [Ids -> Nat] /\ service \in [Ids -> Values]

Quiescent ==
  /\ events = <<>> /\ handler.at = "idle" /\ scan.at = "idle" /\ hook.at = "idle"
  /\ \A p \in Procs : out[p] = {}
  /\ pending = {} /\ queue = <<>>

\* When everything has settled, a file that exists is served with its latest
\* content, and a channel that is connected is served, and no other: no scan,
\* no deduplication by hash and no reordering on the way loses an update.
NothingMissed ==
  Quiescent => /\ \A f \in Files : Readable(disk[f]) => service[f] = disk[f]
               /\ \A r \in Runtime : service[r] = runtimeAuths[r]

\* Every update that was published is applied or replaced by a newer one.
Delivered == \A i \in Ids : []<>(processed[i] = Revision(i))

\* The service follows the log of published updates and never goes back.
Feed == INSTANCE AuthFeed WITH Values <- Values, seen <- processed, served <- service
FollowsFeed == Feed!Spec

\* Hot reload, as the SDK's documentation has it: what the watcher has once
\* published follows its file, removal included.
HotReload ==
  Quiescent => \A f \in Files : log[f] # <<>> /\ disk[f] = None => service[f] = None
=============================================================================
