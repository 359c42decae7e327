------------------------ MODULE AuthUpdates_proofs --------------------------
(***************************************************************************)
(* Proofs about AuthUpdates: the types, that the service follows the log   *)
(* of published updates (the refinement of AuthFeed), and that the newest  *)
(* update of a credential is never lost on its way.                        *)
(***************************************************************************)
EXTENDS AuthUpdates, FiniteSetTheorems, SequenceTheorems, WellFoundedInduction, TLAPS

Places == /\ handler \in [at : {"idle", "removed", "comparing", "reading", "updating", "removing"},
                          file : Files \cup {None}, data : Contents \cup {None}]
          /\ scan \in [at : {"idle", "rescan", "rescanning", "begin", "reading", "committing"},
                       found : [Files -> Contents \cup {None, Torn}] \cup {<<>>},
                       stale : SUBSET Ids, force : BOOLEAN]
          /\ hook \in [at : {"idle", "saved", "applying"}, file : Files \cup {None},
                       data : Contents \cup {None}, rev : Nat]

\* What a goroutine has in hand while it is at work, and that it has dispatched
\* what it stamped before.
AtWork ==
  /\ handler.at # "idle" => handler.file \in Files /\ out["handler"] = {}
  /\ handler.at = "updating" => handler.data \in Contents
  /\ scan.at # "idle" => out["scan"] = {}
  /\ scan.at \in {"rescanning", "committing"} => scan.found \in [Files -> Contents \cup {None, Torn}]
  /\ hook.at # "idle" => hook.file \in Files /\ hook.data \in Contents
  /\ hook.at = "saved" => out["hook"] = {}

\* An update that carries what the log says, and where an update can be.
Genuine(u) == u.rev \in 1..Len(log[u.id]) /\ u.value = log[u.id][u.rev]
InTransit(u) == \/ \E p \in Procs : u \in out[p]
                \/ u \in pending \/ \E k \in 1..Len(queue) : queue[k] = u
Latest(i) == Update(i, Revision(i), log[i][Revision(i)])

FiniteBatches == IsFiniteSet(pending) /\ \A p \in Procs : IsFiniteSet(out[p])
AllGenuine == /\ \A p \in Procs : \A u \in out[p] : Genuine(u)
              /\ \A u \in pending : Genuine(u)
              /\ \A k \in 1..Len(queue) : Genuine(queue[k])
HookGenuine == hook.at = "applying" => Genuine(Update(hook.file, hook.rev, hook.data))
Served == \A i \in Ids : /\ processed[i] <= Revision(i)
                         /\ service[i] = IF processed[i] = 0 THEN None ELSE log[i][processed[i]]
NewestOnItsWay == \A i \in Ids : processed[i] = Revision(i) \/ InTransit(Latest(i))

FeedInv == /\ TypeOK /\ Places /\ AtWork
           /\ FiniteBatches /\ AllGenuine /\ HookGenuine /\ Served /\ NewestOnItsWay

-----------------------------------------------------------------------------
\* Sequences, sets and the newest of some updates.

\* A set of natural numbers that is not empty has a least element.
LEMMA LeastNumber ==
  ASSUME NEW S \in SUBSET Nat, S # {}
  PROVE  \E n \in S : \A m \in S : n <= m
<1>. DEFINE Below == {p \in Nat \X Nat : p[1] < p[2]}
<1>1. IsWellFoundedOn(Below, Nat)
  BY NatLessThanWellFounded, Zenon DEF OpToRel
<1>2. PICK n \in S : \A m \in S : ~(<<m, n>> \in Below)
  BY <1>1, WFMin, Zenon
<1>3. \A m \in S : <<m, n>> \in Nat \X Nat /\ <<m, n>>[1] = m /\ <<m, n>>[2] = n
  OBVIOUS
<1>4. \A m \in S : ~(m < n)
  BY <1>2, <1>3
<1>. QED  BY <1>4

\* The newest update of a credential exists, below any bound of the revisions.
LEMMA NewestUpdate ==
  ASSUME NEW U \in SUBSET Updates, NEW B \in Nat, NEW i \in Ids,
         \A u \in U : u.rev <= B, \E u \in U : u.id = i
  PROVE  /\ Newest(U, i) \in U /\ Newest(U, i).id = i
         /\ \A v \in U : v.id = i => v.rev <= Newest(U, i).rev
<1>. DEFINE Gaps == {B - u.rev : u \in {v \in U : v.id = i}}
<1>1. \A u \in U : u.rev \in Nat
  BY DEF Updates
<1>2. Gaps \in SUBSET Nat /\ Gaps # {}
  BY <1>1
<1>3. PICK g \in Gaps : \A h \in Gaps : g <= h
  BY <1>2, LeastNumber
<1>4. PICK u \in U : u.id = i /\ g = B - u.rev
  OBVIOUS
<1>5. \A v \in U : v.id = i => B - u.rev <= B - v.rev
  BY <1>3, <1>4
<1>6. \A v \in U : v.id = i => v.rev <= u.rev
  BY <1>1, <1>5
<1>. QED  BY <1>4, <1>6 DEF Newest

\* A finite set laid out as a sequence has the elements it had.
LEMMA LaidOut ==
  ASSUME NEW S, IsFiniteSet(S)
  PROVE  /\ SetToSeq(S) \in Seq(S)
         /\ \A x : x \in S <=> \E k \in 1..Len(SetToSeq(S)) : SetToSeq(S)[k] = x
<1>. DEFINE n == Cardinality(S)
<1>1. n \in Nat /\ ExistsBijection(1..n, S)
  BY FS_CardinalityType, Zenon
<1>2. PICK g \in Bijection(1..n, S) : TRUE
  BY <1>1, Zenon DEF ExistsBijection
<1>3. g \in [1..n -> S] /\ IsInjective(g)
  BY <1>2, Zenon DEF Bijection, Injection
<1>4. SetToSeq(S) \in [1..n -> S] /\ IsInjective(SetToSeq(S))
  BY <1>3, Zenon DEF SetToSeq
<1>. DEFINE s == SetToSeq(S)
<1>. HIDE DEF n
<1>5. s \in Seq(S) /\ Len(s) = n
  BY <1>1, <1>4
<1>6. s \in Injection(1..n, S) /\ IsFiniteSet(1..n) /\ Cardinality(1..n) = n
  BY <1>1, <1>4, FS_Interval DEF Injection
<1>7. s \in Surjection(1..n, S)
  BY <1>6, FS_Injection, Zenon DEF n
<1>8. \A x \in S : \E k \in 1..n : s[k] = x
  BY <1>7, Zenon DEF Surjection
<1>. QED  BY <1>4, <1>5, <1>8

-----------------------------------------------------------------------------
\* The delivery: what each way of publishing, dispatching and applying leaves.

FilesTyped ==
  /\ disk \in [Files -> Contents \cup {None, Torn}]
  /\ changes \in 0..MaxChanges /\ reloads \in 0..MaxReloads
  /\ events \in Seq([file : Files, op : {"write", "remove"}])
  /\ lastRemove \subseteq Files /\ fileAuthsByPath \subseteq Files
  /\ lastAuthHashes \in [Files -> Contents \cup {None, Blank}]
  /\ currentAuths \in [Ids -> Values] /\ runtimeAuths \in [Runtime -> Values]
FeedTyped ==
  /\ log \in [Ids -> Seq(Values)]
  /\ out \in [Procs -> SUBSET Updates] /\ pending \subseteq Updates
  /\ queue \in Seq(Updates)
  /\ processed \in [Ids -> Nat] /\ service \in [Ids -> Values]
Delivery == FeedTyped /\ FiniteBatches /\ AllGenuine /\ Served /\ NewestOnItsWay

LEMMA TypesSplit == Places => (TypeOK <=> FilesTyped /\ FeedTyped)
BY DEF Places, TypeOK, FilesTyped, FeedTyped

LEMMA LogTypes ==
  ASSUME FeedTyped
  PROVE  /\ \A i \in Ids : Revision(i) \in Nat
         /\ \A u \in Updates : Genuine(u) => u.rev > 0 /\ u.rev <= Revision(u.id) /\ u.rev \in Nat
         /\ \A i \in Ids : Revision(i) > 0 => Latest(i) \in Updates /\ Genuine(Latest(i))
<1>1. \A i \in Ids : log[i] \in Seq(Values) /\ Len(log[i]) \in Nat
  BY DEF FeedTyped
<1>. QED  BY <1>1, ElementOfSeq DEF Revision, Genuine, Latest, Update, Updates

\* Stamping publishes new updates, for a process that has dispatched its others.
LEMMA StampKeeps ==
  ASSUME Delivery, IdAssumption, NEW p \in Procs, out[p] = {}, NEW I \in SUBSET Ids, NEW value,
         \A i \in I : value[i] \in Values, stampAuthUpdatesLocked(p, I, value),
         UNCHANGED <<pending, queue, processed, service>>
  PROVE  /\ Delivery' /\ \A u \in Updates : Genuine(u) => Genuine(u)'
         /\ \A i \in I : \A u : u = Update(i, Revision(i) + 1, value[i]) => u \in Updates /\ Genuine(u)'
         /\ Feed!Next
<1>. DEFINE new == {Update(i, Revision(i) + 1, value[i]) : i \in I}
<1>. USE DEF Delivery
<1>1. \A i \in Ids : log[i] \in Seq(Values) /\ Len(log[i]) \in Nat
  BY DEF FeedTyped
<1>2. log' \in [Ids -> Seq(Values)] /\ \A i \in Ids :
        /\ i \in I => log'[i] = Append(log[i], value[i]) /\ Len(log'[i]) = Len(log[i]) + 1
                      /\ log'[i][Len(log[i]) + 1] = value[i]
        /\ i \notin I => log'[i] = log[i]
        /\ \A k \in 1..Len(log[i]) : log'[i][k] = log[i][k]
  BY <1>1, AppendProperties DEF stampAuthUpdatesLocked
<1>3. new \subseteq Updates
  BY <1>1 DEF Updates, Update, Revision
<1>4. out' = [out EXCEPT ![p] = new]
  BY DEF stampAuthUpdatesLocked
<1>5. FeedTyped'
  BY <1>2, <1>3, <1>4 DEF FeedTyped
<1>6. FiniteBatches'
  <2>1. IsFiniteSet(Ids)
    BY DEF IdAssumption, Ids
  <2>2. IsFiniteSet(I)
    BY <2>1, FS_Subset
  <2>. DEFINE f == [i \in I |-> Update(i, Revision(i) + 1, value[i])]
  <2>3. f \in Surjection(I, new)
    BY DEF Surjection
  <2>4. IsFiniteSet(new)
    BY <2>2, <2>3, FS_Surjection
  <2>. QED  BY <2>4, <1>4 DEF FiniteBatches, FeedTyped
<1>7. \A u \in Updates : Genuine(u) => Genuine(u)'
  BY <1>1, <1>2 DEF Genuine, Updates
<1>8. \A i \in I : \A u : u = Update(i, Revision(i) + 1, value[i]) => Genuine(u)'
  BY <1>1, <1>2 DEF Genuine, Update, Revision
<1>9. \A u : u \in new => Genuine(u)'
  BY <1>8
<1>10. AllGenuine'
  <2>1. \A q \in Procs : \A u \in out'[q] : Genuine(u)'
    BY <1>4, <1>7, <1>9 DEF AllGenuine, FeedTyped
  <2>2. \A u \in pending' : Genuine(u)'
    BY <1>7 DEF AllGenuine, FeedTyped
  <2>3. \A k \in 1..Len(queue) : queue[k] \in Updates /\ Genuine(queue[k])'
    BY <1>7, ElementOfSeq DEF AllGenuine, FeedTyped
  <2>4. \A k \in 1..Len(queue') : Genuine(queue[k])'
    BY <2>3
  <2>. QED  BY <2>1, <2>2, <2>4 DEF AllGenuine
<1>11. Served'
  <2>. SUFFICES ASSUME NEW i \in Ids
                PROVE  /\ processed[i] <= Len(log'[i])
                       /\ service[i] = IF processed[i] = 0 THEN None ELSE log'[i][processed[i]]
    BY DEF Served, Revision
  <2>1. /\ processed[i] \in Nat /\ processed[i] <= Len(log[i])
        /\ service[i] = IF processed[i] = 0 THEN None ELSE log[i][processed[i]]
    BY DEF Served, Revision, FeedTyped
  <2>2. Len(log[i]) <= Len(log'[i])
    BY <1>1, <1>2
  <2>3. processed[i] # 0 => log'[i][processed[i]] = log[i][processed[i]]
    BY <1>1, <1>2, <2>1
  <2>. QED  BY <1>1, <1>2, <2>1, <2>2, <2>3
<1>12. NewestOnItsWay'
  <2>. SUFFICES ASSUME NEW i \in Ids, processed'[i] # Revision(i)'  PROVE InTransit(Latest(i))'
    BY DEF NewestOnItsWay
  <2>1. CASE i \in I
    <3>1. Latest(i)' = Update(i, Revision(i) + 1, value[i])
      BY <1>1, <1>2, <2>1 DEF Latest, Revision, Update
    <3>2. Latest(i)' \in out'[p]
      BY <3>1, <1>4, <2>1 DEF FeedTyped
    <3>. QED  BY <3>2 DEF InTransit
  <2>2. CASE i \notin I
    <3>1. Latest(i)' = Latest(i) /\ Revision(i)' = Revision(i)
      BY <1>2, <2>2 DEF Latest, Revision
    <3>2. InTransit(Latest(i))
      BY <3>1 DEF NewestOnItsWay
    <3>3. \A q \in Procs : out[q] \subseteq out'[q]
      BY <1>4 DEF FeedTyped
    <3>. QED  BY <3>1, <3>2, <3>3 DEF InTransit
  <2>. QED  BY <2>1, <2>2
<1>13. Feed!Next
  <2>. DEFINE v == [i \in I |-> value[i]]
  <2>1. v \in [I -> Values] /\ Feed!Publish(I, v)
    BY DEF Feed!Publish, stampAuthUpdatesLocked
  <2>. QED  BY <2>1 DEF Feed!Next
<1>14. \A i \in I : Update(i, Revision(i) + 1, value[i]) \in Updates
  BY <1>3
<1>. QED  BY <1>5, <1>6, <1>7, <1>8, <1>10, <1>11, <1>12, <1>13, <1>14

\* An update overtaken since it was stamped may be dropped, one that waits may be
\* replaced: the newest of a credential stays.
LEMMA DispatchKeeps ==
  ASSUME Delivery, NEW p \in Procs, dispatchAuthUpdates(p)
  PROVE  Delivery' /\ UNCHANGED <<log, processed, service>> /\ \A u : Genuine(u) => Genuine(u)'
<1>. DEFINE current == {u \in out[p] : ~Overtaken(u)}
<1>. USE DEF Delivery
<1>1. /\ pending' = NewerOf(pending, current) /\ out' = [out EXCEPT ![p] = {}]
      /\ UNCHANGED <<log, processed, service, queue>>
  BY DEF dispatchAuthUpdates, stateVars, serviceVars
<1>2. current \subseteq out[p] /\ out[p] \subseteq Updates /\ current \subseteq Updates
  BY DEF FeedTyped
<1>3. pending' \subseteq pending \cup current
  BY <1>1 DEF NewerOf
<1>4. FeedTyped'
  BY <1>1, <1>2, <1>3 DEF FeedTyped
<1>5. FiniteBatches'
  <2>1. IsFiniteSet(pending) /\ IsFiniteSet(current)
    BY <1>2, FS_Subset DEF FiniteBatches
  <2>2. IsFiniteSet(pending \cup current)
    BY <2>1, FS_Union
  <2>3. IsFiniteSet(pending')
    BY <2>2, <1>3, FS_Subset
  <2>. QED  BY <1>1, <2>3, FS_EmptySet DEF FiniteBatches, FeedTyped
<1>6. \A u : Genuine(u) => Genuine(u)'
  BY <1>1 DEF Genuine
<1>7. AllGenuine'
  BY <1>1, <1>2, <1>3, <1>6 DEF AllGenuine, FeedTyped
<1>8. Served'
  BY <1>1 DEF Served, Revision
<1>9. NewestOnItsWay'
  <2>. SUFFICES ASSUME NEW i \in Ids, processed[i] # Revision(i)  PROVE InTransit(Latest(i))'
    BY <1>1 DEF NewestOnItsWay, Revision
  <2>1. Latest(i)' = Latest(i) /\ Latest(i).id = i /\ Latest(i).rev = Revision(i)
    BY <1>1 DEF Latest, Revision, Update
  <2>2. InTransit(Latest(i))
    BY DEF NewestOnItsWay
  <2>3. Revision(i) > 0
    BY LogTypes DEF Served, FeedTyped
  <2>4. CASE Latest(i) \in out[p]
    <3>1. Latest(i) \in current
      BY <2>1, <2>4, LogTypes DEF Overtaken
    <3>. QED  BY <3>1, <2>1, <1>1 DEF NewerOf, InTransit
  <2>5. CASE Latest(i) \in pending
    <3>1. \A v \in current : v.id = i => v = Latest(i)
      <4>. SUFFICES ASSUME NEW v \in current, v.id = i  PROVE v = Latest(i)
        OBVIOUS
      <4>1. Genuine(v) /\ v \in Updates
        BY <1>2 DEF AllGenuine
      <4>2. v.rev = Revision(i)
        BY <4>1, LogTypes DEF Overtaken
      <4>. QED  BY <4>1, <4>2 DEF Genuine, Latest, Update, Updates
    <3>2. Latest(i) \in pending'
      BY <3>1, <2>1, <2>5, <1>1 DEF NewerOf
    <3>. QED  BY <3>2, <2>1 DEF InTransit
  <2>6. CASE \E k \in 1..Len(queue) : queue[k] = Latest(i)
    BY <2>6, <2>1, <1>1 DEF InTransit
  <2>7. CASE \E q \in Procs : q # p /\ Latest(i) \in out[q]
    BY <2>7, <2>1, <1>1 DEF InTransit, FeedTyped
  <2>. QED  BY <2>2, <2>4, <2>5, <2>6, <2>7 DEF InTransit
<1>. QED  BY <1>1, <1>4, <1>5, <1>6, <1>7, <1>8, <1>9

\* A batch is handed to the consumer as a whole.
LEMMA BatchKeeps ==
  ASSUME Delivery, nextPendingBatch
  PROVE  Delivery' /\ UNCHANGED <<log, processed, service>> /\ \A u : Genuine(u) => Genuine(u)'
<1>. DEFINE batch == SetToSeq(pending)
<1>. USE DEF Delivery
<1>1. /\ pending' = {} /\ queue' = queue \o batch
      /\ UNCHANGED <<log, processed, service, out>>
  BY DEF nextPendingBatch, stateVars, serviceVars
<1>2. batch \in Seq(pending) /\ \A x : x \in pending <=> \E k \in 1..Len(batch) : batch[k] = x
  BY LaidOut DEF FiniteBatches
<1>3. pending \subseteq Updates /\ queue \in Seq(Updates)
  BY DEF FeedTyped
<1>4. batch \in Seq(Updates)
  BY <1>2, <1>3, SeqMonotonic
<1>. HIDE DEF batch
<1>5. /\ queue' \in Seq(Updates) /\ Len(queue) \in Nat /\ Len(batch) \in Nat
      /\ Len(queue') = Len(queue) + Len(batch)
      /\ \A k \in 1..Len(queue) + Len(batch) :
           queue'[k] = IF k <= Len(queue) THEN queue[k] ELSE batch[k - Len(queue)]
  BY <1>1, <1>3, <1>4, ConcatProperties, LenProperties
<1>6. FeedTyped'
  BY <1>1, <1>5 DEF FeedTyped
<1>7. FiniteBatches'
  BY <1>1, FS_EmptySet DEF FiniteBatches
<1>8. \A u : Genuine(u) => Genuine(u)'
  BY <1>1 DEF Genuine
<1>9. \A k \in 1..Len(queue') : /\ k \in 1..Len(queue) => queue'[k] = queue[k]
                                /\ k \notin 1..Len(queue) => queue'[k] \in pending
  <2>. SUFFICES ASSUME NEW k \in 1..Len(queue'), k \notin 1..Len(queue)  PROVE queue'[k] \in pending
    BY <1>5
  <2>1. k - Len(queue) \in 1..Len(batch) /\ queue'[k] = batch[k - Len(queue)]
    BY <1>5
  <2>. QED  BY <2>1, <1>2
<1>10. AllGenuine'
  <2>1. \A k \in 1..Len(queue') : Genuine(queue'[k])
    BY <1>9 DEF AllGenuine
  <2>. QED  BY <1>1, <1>8, <2>1 DEF AllGenuine
<1>11. Served'
  BY <1>1 DEF Served, Revision
<1>12. \A x : x \in pending => \E k \in 1..Len(queue') : queue'[k] = x
  <2>. SUFFICES ASSUME NEW x \in pending  PROVE \E k \in 1..Len(queue') : queue'[k] = x
    OBVIOUS
  <2>1. PICK j \in 1..Len(batch) : batch[j] = x
    BY <1>2
  <2>. QED  BY <2>1, <1>5, SMTT(30)
<1>13. \A k \in 1..Len(queue) : k \in 1..Len(queue') /\ queue'[k] = queue[k]
  BY <1>5
<1>14. NewestOnItsWay'
  <2>. SUFFICES ASSUME NEW i \in Ids, processed[i] # Revision(i)  PROVE InTransit(Latest(i))'
    BY <1>1 DEF NewestOnItsWay, Revision
  <2>1. Latest(i)' = Latest(i) /\ InTransit(Latest(i))
    BY <1>1 DEF Latest, Revision, Update, NewestOnItsWay
  <2>2. \/ \E q \in Procs : Latest(i) \in out'[q]
        \/ \E k \in 1..Len(queue') : queue'[k] = Latest(i)
    BY <2>1, <1>1, <1>12, <1>13 DEF InTransit
  <2>. QED  BY <2>1, <2>2 DEF InTransit
<1>. QED  BY <1>1, <1>6, <1>7, <1>8, <1>10, <1>11, <1>14

\* Applying genuine updates follows the log, and never goes back in it.
LEMMA ApplyFollows ==
  ASSUME Delivery, NEW U \in SUBSET Updates, \A u \in U : Genuine(u),
         handleAuthUpdates(U), UNCHANGED log
  PROVE  /\ processed' \in [Ids -> Nat] /\ service' \in [Ids -> Values] /\ Served'
         /\ \A i \in Ids : processed[i] <= processed'[i] /\ processed'[i] <= Revision(i)
         /\ \A u \in U : u.rev <= processed'[u.id]
         /\ Feed!Next
<1>. USE DEF Delivery
<1>1. \A i \in Ids : log[i] \in Seq(Values) /\ Len(log[i]) \in Nat /\ Revision(i) = Len(log[i])
  BY DEF FeedTyped, Revision
<1>2. \A u \in U : u.rev \in Nat /\ u.rev > 0 /\ u.rev <= Revision(u.id) /\ u.id \in Ids /\ u.value \in Values
                   /\ u.value = log[u.id][u.rev]
  BY LogTypes DEF Updates, Genuine
<1>. DEFINE I == {u.id : u \in Fresh(U)}
<1>3. \A i \in I : /\ i \in Ids /\ Newest(U, i) \in U /\ Newest(U, i).id = i
                   /\ \A v \in U : v.id = i => v.rev <= Newest(U, i).rev
  <2>. SUFFICES ASSUME NEW i \in I
                PROVE  /\ i \in Ids /\ Newest(U, i) \in U /\ Newest(U, i).id = i
                       /\ \A v \in U : v.id = i => v.rev <= Newest(U, i).rev
    OBVIOUS
  <2>1. PICK u \in U : u.id = i
    BY DEF Fresh
  <2>2. i \in Ids /\ Revision(i) \in Nat
    BY <2>1, <1>2, <1>1
  <2>. DEFINE V == {v \in U : v.id = i}
  <2>3. V \in SUBSET Updates /\ (\A v \in V : v.rev <= Revision(i)) /\ \E v \in V : v.id = i
    BY <2>1, <1>2
  <2>4. Newest(V, i) \in V /\ \A v \in V : v.id = i => v.rev <= Newest(V, i).rev
    BY <2>2, <2>3, NewestUpdate
  <2>5. \E w \in U : w.id = i /\ \A v \in U : v.id = i => v.rev <= w.rev
    BY <2>4
  <2>. QED  BY <2>2, <2>5 DEF Newest
<1>4. \A i \in Ids : /\ i \in I => processed'[i] = Newest(U, i).rev /\ service'[i] = Newest(U, i).value
                     /\ i \notin I => processed'[i] = processed[i] /\ service'[i] = service[i]
  BY DEF handleAuthUpdates
<1>. HIDE DEF I
<1>5. /\ processed' \in [Ids -> Nat] /\ service' \in [Ids -> Values]
  <2>1. \A i \in I : Newest(U, i).rev \in Nat /\ Newest(U, i).value \in Values
    BY <1>2, <1>3
  <2>. QED  BY <2>1 DEF handleAuthUpdates, FeedTyped, I
<1>6. \A u \in U : u.rev <= processed'[u.id]
  <2>. SUFFICES ASSUME NEW u \in U  PROVE u.rev <= processed'[u.id]
    OBVIOUS
  <2>1. CASE u.id \in I
    BY <2>1, <1>2, <1>3, <1>4
  <2>2. CASE u.id \notin I
    <3>1. u \notin Fresh(U)
      BY <2>2 DEF I
    <3>. QED  BY <3>1, <2>2, <1>2, <1>4 DEF Fresh, FeedTyped
  <2>. QED  BY <2>1, <2>2
<1>7. \A i \in Ids : processed[i] <= processed'[i] /\ processed'[i] <= Revision(i)
  <2>. SUFFICES ASSUME NEW i \in Ids  PROVE processed[i] <= processed'[i] /\ processed'[i] <= Revision(i)
    OBVIOUS
  <2>1. CASE i \in I
    <3>1. PICK u \in U : u.id = i /\ u.rev > processed[i]
      BY <2>1 DEF I, Fresh
    <3>2. u.rev <= processed'[i]
      BY <3>1, <1>6
    <3>3. processed'[i] <= Revision(i)
      BY <2>1, <1>2, <1>3, <1>4
    <3>4. processed'[i] \in Nat /\ processed[i] \in Nat /\ u.rev \in Nat
      BY <1>2, <1>5 DEF FeedTyped
    <3>. QED  BY <3>1, <3>2, <3>3, <3>4
  <2>2. CASE i \notin I
    BY <2>2, <1>4, <1>1 DEF Served, FeedTyped
  <2>. QED  BY <2>1, <2>2
<1>8. \A i \in Ids : service'[i] = IF processed'[i] = processed[i] THEN service[i] ELSE log[i][processed'[i]]
  <2>. SUFFICES ASSUME NEW i \in Ids
                PROVE  service'[i] = IF processed'[i] = processed[i] THEN service[i] ELSE log[i][processed'[i]]
    OBVIOUS
  <2>1. CASE i \in I
    <3>1. PICK u \in U : u.id = i /\ u.rev > processed[i]
      BY <2>1 DEF I, Fresh
    <3>2. u.rev <= processed'[i]
      BY <3>1, <1>6
    <3>3. processed'[i] # processed[i]
      BY <3>1, <3>2, <1>2, <1>5 DEF FeedTyped
    <3>. QED  BY <3>3, <2>1, <1>2, <1>3, <1>4
  <2>2. CASE i \notin I
    BY <2>2, <1>4
  <2>. QED  BY <2>1, <2>2
<1>9. Served'
  <2>. SUFFICES ASSUME NEW i \in Ids
                PROVE  service'[i] = IF processed'[i] = 0 THEN None ELSE log[i][processed'[i]]
    BY <1>7 DEF Served, Revision
  <2>1. processed[i] \in Nat /\ processed'[i] \in Nat /\ processed[i] <= processed'[i]
    BY <1>5, <1>7 DEF FeedTyped
  <2>. QED  BY <2>1, <1>8 DEF Served
<1>10. Feed!Next
  <2>1. Feed!Advance
    <3>1. service' = [i \in Ids |-> IF processed'[i] = processed[i] THEN service[i] ELSE log[i][processed'[i]]]
      BY <1>5, <1>8
    <3>. QED  BY <3>1, <1>1, <1>5, <1>7 DEF Feed!Advance
  <2>. QED  BY <2>1 DEF Feed!Next
<1>. QED  BY <1>5, <1>6, <1>7, <1>9, <1>10

\* What is not applied yet stays where it is; what is applied does not have to wait.
LEMMA ApplyKeeps ==
  ASSUME Delivery, NEW U \in SUBSET Updates, \A u \in U : Genuine(u),
         handleAuthUpdates(U), UNCHANGED <<log, out, pending>>,
         queue' \in Seq(Updates),
         \A k \in 1..Len(queue') : \E j \in 1..Len(queue) : queue'[k] = queue[j],
         \A j \in 1..Len(queue) : queue[j] \in U \/ \E k \in 1..Len(queue') : queue'[k] = queue[j]
  PROVE  Delivery' /\ Feed!Next /\ \A u : Genuine(u) => Genuine(u)'
<1>1. /\ processed' \in [Ids -> Nat] /\ service' \in [Ids -> Values] /\ Served' /\ Feed!Next
      /\ \A i \in Ids : processed[i] <= processed'[i] /\ processed'[i] <= Revision(i)
      /\ \A u \in U : u.rev <= processed'[u.id]
  BY ApplyFollows
<1>. USE DEF Delivery
<1>2. FeedTyped' /\ FiniteBatches'
  BY <1>1 DEF FeedTyped, FiniteBatches
<1>3. \A u : Genuine(u) => Genuine(u)'
  BY DEF Genuine
<1>4. AllGenuine'
  <2>1. \A k \in 1..Len(queue') : Genuine(queue'[k])
    BY DEF AllGenuine
  <2>. QED  BY <2>1, <1>3 DEF AllGenuine
<1>5. NewestOnItsWay'
  <2>. SUFFICES ASSUME NEW i \in Ids, processed'[i] # Revision(i)  PROVE InTransit(Latest(i))'
    BY DEF NewestOnItsWay, Revision
  <2>1. Latest(i)' = Latest(i) /\ Latest(i).id = i /\ Latest(i).rev = Revision(i)
    BY DEF Latest, Revision, Update
  <2>2. processed[i] # Revision(i)
    BY <1>1, LogTypes DEF FeedTyped
  <2>3. InTransit(Latest(i))
    BY <2>2 DEF NewestOnItsWay
  <2>4. Latest(i) \notin U
    BY <2>1, <1>1, LogTypes
  <2>5. CASE \E j \in 1..Len(queue) : queue[j] = Latest(i)
    <3>1. \E k \in 1..Len(queue') : queue'[k] = Latest(i)
      BY <2>4, <2>5
    <3>. QED  BY <3>1, <2>1 DEF InTransit
  <2>6. CASE Latest(i) \in pending \/ \E q \in Procs : Latest(i) \in out[q]
    BY <2>6, <2>1 DEF InTransit
  <2>. QED  BY <2>3, <2>5, <2>6 DEF InTransit
<1>. QED  BY <1>1, <1>2, <1>3, <1>4, <1>5

LEMMA ConsumeKeeps ==
  ASSUME Delivery, NEW n, consumeAuthUpdates(n)
  PROVE  Delivery' /\ Feed!Next /\ \A u : Genuine(u) => Genuine(u)'
<1>. DEFINE U == {queue[k] : k \in 1..n}
<1>1. /\ n \in 1..Len(queue) /\ handleAuthUpdates(U) /\ queue' = SubSeq(queue, n + 1, Len(queue))
      /\ UNCHANGED <<log, out, pending>>
  BY DEF consumeAuthUpdates, stateVars
<1>2. queue \in Seq(Updates) /\ Len(queue) \in Nat /\ n \in Nat /\ n <= Len(queue)
  BY <1>1, LenProperties DEF Delivery, FeedTyped
<1>3. \A k \in 1..Len(queue) : queue[k] \in Updates /\ Genuine(queue[k])
  BY <1>2, ElementOfSeq DEF Delivery, AllGenuine
<1>4. U \in SUBSET Updates /\ \A u \in U : Genuine(u)
  BY <1>2, <1>3
<1>5. /\ queue' \in Seq(Updates) /\ Len(queue') = Len(queue) - n
      /\ \A k \in 1..Len(queue) - n : queue'[k] = queue[n + k]
  <2>1. \A k \in n + 1..Len(queue) : queue[k] \in Updates
    BY <1>2, <1>3
  <2>2. /\ SubSeq(queue, n + 1, Len(queue)) \in Seq(Updates)
        /\ Len(SubSeq(queue, n + 1, Len(queue))) = IF n + 1 <= Len(queue) THEN Len(queue) - (n + 1) + 1 ELSE 0
        /\ \A k \in 1..Len(queue) - (n + 1) + 1 : SubSeq(queue, n + 1, Len(queue))[k] = queue[(n + 1) + k - 1]
    BY <1>2, <2>1, SubSeqProperties
  <2>3. Len(queue') = Len(queue) - n
    BY <2>2, <1>1, <1>2
  <2>4. \A k \in 1..Len(queue) - n : queue'[k] = queue[n + k]
    <3>. SUFFICES ASSUME NEW k \in 1..Len(queue) - n  PROVE queue'[k] = queue[n + k]
      OBVIOUS
    <3>1. k \in 1..Len(queue) - (n + 1) + 1 /\ (n + 1) + k - 1 = n + k
      BY <1>2
    <3>. QED  BY <3>1, <2>2, <1>1
  <2>. QED  BY <2>2, <2>3, <2>4, <1>1
<1>6. \A k \in 1..Len(queue') : \E j \in 1..Len(queue) : queue'[k] = queue[j]
  <2>. SUFFICES ASSUME NEW k \in 1..Len(queue')  PROVE \E j \in 1..Len(queue) : queue'[k] = queue[j]
    OBVIOUS
  <2>1. n + k \in 1..Len(queue) /\ queue'[k] = queue[n + k]
    BY <1>2, <1>5
  <2>. QED  BY <2>1
<1>7. \A j \in 1..Len(queue) : queue[j] \in U \/ \E k \in 1..Len(queue') : queue'[k] = queue[j]
  <2>. SUFFICES ASSUME NEW j \in 1..Len(queue), j > n  PROVE \E k \in 1..Len(queue') : queue'[k] = queue[j]
    BY <1>2
  <2>1. j - n \in 1..Len(queue') /\ queue'[j - n] = queue[j]
    BY <1>2, <1>5
  <2>. QED  BY <2>1
<1>. HIDE DEF U
<1>. QED  BY <1>1, <1>4, <1>5, <1>6, <1>7, ApplyKeeps

LEMMA HookApplyKeeps ==
  ASSUME Delivery, Places, AtWork, HookGenuine, HookApply
  PROVE  Delivery' /\ Feed!Next /\ \A u : Genuine(u) => Genuine(u)'
<1>. DEFINE u == Update(hook.file, hook.rev, hook.data)
<1>1. hook.at = "applying" /\ handleAuthUpdates({u}) /\ UNCHANGED <<log, out, pending, queue>>
  BY DEF HookApply, stateVars, queueVars
<1>2. u \in Updates /\ Genuine(u)
  BY <1>1 DEF AtWork, Places, HookGenuine, Updates, Update, Ids, Values
<1>3. queue' \in Seq(Updates)
  BY <1>1 DEF Delivery, FeedTyped
<1>4. \A k \in 1..Len(queue') : \E j \in 1..Len(queue) : queue'[k] = queue[j]
  BY <1>1
<1>5. \A j \in 1..Len(queue) : queue[j] \in {u} \/ \E k \in 1..Len(queue') : queue'[k] = queue[j]
  BY <1>1
<1>6. {u} \in SUBSET Updates /\ \A v \in {u} : Genuine(v)
  BY <1>2
<1>. HIDE DEF u
<1>. QED  BY <1>1, <1>3, <1>4, <1>5, <1>6, ApplyKeeps

\* Nothing of the delivery moves.
LEMMA ElsewhereDelivery ==
  ASSUME Delivery, UNCHANGED <<log, out, pending, queue, processed, service>>
  PROVE  Delivery' /\ \A u : Genuine(u) => Genuine(u)'
<1>1. \A u : (Genuine(u)' <=> Genuine(u)) /\ (InTransit(u)' <=> InTransit(u))
  BY DEF Genuine, InTransit
<1>2. \A i : Latest(i)' = Latest(i) /\ Revision(i)' = Revision(i)
  BY DEF Latest, Revision, Update
<1>3. FeedTyped' /\ FiniteBatches' /\ Served' /\ AllGenuine'
  BY <1>1, <1>2 DEF Delivery, FeedTyped, FiniteBatches, Served, AllGenuine
<1>4. NewestOnItsWay'
  <2>. SUFFICES ASSUME NEW i \in Ids  PROVE processed'[i] = Revision(i)' \/ InTransit(Latest(i))'
    BY DEF NewestOnItsWay
  <2>1. processed[i] = Revision(i) \/ InTransit(Latest(i))
    BY DEF Delivery, NewestOnItsWay
  <2>2. InTransit(Latest(i)) => InTransit(Latest(i))'
    BY <1>2 DEF InTransit
  <2>. QED  BY <1>2, <2>1, <2>2
<1>. QED  BY <1>1, <1>3, <1>4 DEF Delivery

-----------------------------------------------------------------------------
\* Every action, one after the other: the types of the files' side.

Followed == Delivery' /\ HookGenuine' /\ (Feed!Next \/ UNCHANGED Feed!vars)
Sides == FilesTyped /\ Places /\ AtWork

\* An action that leaves the delivery alone and does not begin the hook's turn.
LEMMA ElsewhereFollowed ==
  ASSUME Delivery, HookGenuine, hook'.at = "applying" => hook' = hook,
         UNCHANGED <<log, out, pending, queue, processed, service>>
  PROVE  Followed
<1>1. Delivery' /\ \A u : Genuine(u) => Genuine(u)'
  BY ElsewhereDelivery
<1>2. HookGenuine'
  BY <1>1 DEF HookGenuine, Genuine, Update
<1>. QED  BY <1>1, <1>2 DEF Followed, Feed!vars

\* Genuine updates stay so, that of the hook with them.
LEMMA HookStays ==
  ASSUME HookGenuine, \A u : Genuine(u) => Genuine(u)', hook'.at = "applying" => hook' = hook
  PROVE  HookGenuine'
<1>. SUFFICES ASSUME hook'.at = "applying"  PROVE Genuine(Update(hook.file, hook.rev, hook.data))'
  BY DEF HookGenuine
<1>1. hook' = hook /\ Genuine(Update(hook.file, hook.rev, hook.data))
  BY DEF HookGenuine
<1>. QED  BY <1>1 DEF Genuine, Update

LEMMA HookStaysIn ==
  ASSUME HookGenuine, Places, AtWork, \A u \in Updates : Genuine(u) => Genuine(u)', hook' = hook
  PROVE  HookGenuine'
<1>. SUFFICES ASSUME hook.at = "applying"  PROVE Genuine(Update(hook.file, hook.rev, hook.data))'
  BY DEF HookGenuine
<1>1. Genuine(Update(hook.file, hook.rev, hook.data)) /\ Update(hook.file, hook.rev, hook.data) \in Updates
  BY DEF HookGenuine, Places, AtWork, Update, Updates, Ids, Values
<1>. QED  BY <1>1 DEF Genuine, Update

LEMMA ChangeKeeps ==
  ASSUME Sides, BoundAssumption, NEW f \in Files, NEW content \in Contents \cup {None, Torn},
         NEW op \in {"write", "remove"}, Change(f, content, op)
  PROVE  Sides' /\ UNCHANGED hook /\ UNCHANGED <<log, out, pending, queue, processed, service>>
<1>. USE DEF Sides, Change, Counting, stateVars, queueVars, serviceVars
<1>1. changes' \in 0..MaxChanges
  BY DEF FilesTyped, BoundAssumption
<1>2. events' \in Seq([file : Files, op : {"write", "remove"}])
  BY AppendProperties DEF FilesTyped
<1>3. disk' \in [Files -> Contents \cup {None, Torn}]
  BY DEF FilesTyped
<1>4. FilesTyped'
  BY <1>1, <1>2, <1>3 DEF FilesTyped
<1>5. Places' /\ AtWork'
  BY DEF Places, AtWork
<1>. QED  BY <1>4, <1>5

LEMMA OutsideStep ==
  ASSUME FeedInv, IdAssumption, BoundAssumption, Outside
  PROVE  Sides' /\ Followed
<1>1. Sides /\ Delivery /\ HookGenuine
  BY TypesSplit DEF FeedInv, Sides, Delivery
<1>2. changes < MaxChanges => changes + 1 \in Contents
  BY <1>1 DEF Sides, FilesTyped, Contents, BoundAssumption
<1>3. ASSUME NEW f \in Files, WriteFile(f) \/ TruncateFile(f) \/ RemoveFile(f)
      PROVE  Sides' /\ UNCHANGED hook /\ UNCHANGED <<log, out, pending, queue, processed, service>>
  <2>1. \/ changes < MaxChanges /\ Change(f, changes + 1, "write")
        \/ Change(f, Torn, "write") \/ Change(f, None, "remove")
    BY <1>3 DEF WriteFile, TruncateFile, RemoveFile, Change, Counting
  <2>. QED  BY <2>1, <1>1, <1>2, ChangeKeeps
<1>4. ASSUME NEW f \in Files, DebounceWindowPasses(f)
      PROVE  Sides' /\ UNCHANGED hook /\ UNCHANGED <<log, out, pending, queue, processed, service>>
  BY <1>1, <1>4 DEF DebounceWindowPasses, fileVars, stateVars, queueVars, serviceVars, Sides, FilesTyped,
     Places, AtWork
<1>5. Sides' /\ UNCHANGED hook /\ UNCHANGED <<log, out, pending, queue, processed, service>>
  BY <1>3, <1>4 DEF Outside
<1>. QED  BY <1>1, <1>5, ElsewhereFollowed

LEMMA ObserveTypes ==
  ASSUME Sides, NEW f \in Files, observeAuthFile(f)
  PROVE  /\ scan' \in [at : {"idle", "rescan", "rescanning", "begin", "reading", "committing"},
                       found : [Files -> Contents \cup {None, Torn}] \cup {<<>>},
                       stale : SUBSET Ids, force : BOOLEAN]
         /\ scan'.at = scan.at /\ scan'.found = scan.found
         /\ lastAuthHashes' \in [Files -> Contents \cup {None, Blank}]
BY DEF Sides, Places, FilesTyped, observeAuthFile, ScanStale, Ids

LEMMA StaleTypes ==
  ASSUME Sides, NEW I \in SUBSET Ids, ScanStale(I)
  PROVE  /\ scan' \in [at : {"idle", "rescan", "rescanning", "begin", "reading", "committing"},
                       found : [Files -> Contents \cup {None, Torn}] \cup {<<>>},
                       stale : SUBSET Ids, force : BOOLEAN]
         /\ scan'.at = scan.at /\ scan'.found = scan.found
BY DEF Sides, Places, ScanStale

LEMMA HandleEventStep ==
  ASSUME FeedInv, HandleEvent
  PROVE  Sides' /\ Followed
<1>1. Sides /\ Delivery /\ HookGenuine
  BY TypesSplit DEF FeedInv, Sides, Delivery
<1>. DEFINE e == Head(events)
<1>2. /\ handler.at = "idle" /\ out["handler"] = {} /\ events # <<>> /\ events' = Tail(events)
      /\ observeAuthFile(e.file)
      /\ UNCHANGED <<disk, fileAuthsByPath, currentAuths, runtimeAuths, log, hook, out, queueVars,
                     serviceVars, changes, reloads>>
      /\ \/ UNCHANGED <<handler, lastRemove>>
         \/ /\ \E at \in {"removed", "comparing"} : handler' = [handler EXCEPT !.at = at, !.file = e.file]
            /\ lastRemove' \subseteq lastRemove \cup {e.file}
  BY Zenon DEF HandleEvent
<1>3. e \in [file : Files, op : {"write", "remove"}] /\ events' \in Seq([file : Files, op : {"write", "remove"}])
  BY <1>1, <1>2, HeadTailProperties DEF Sides, FilesTyped
<1>4. e.file \in Files
  BY <1>3
<1>. HIDE DEF e
<1>5. FilesTyped'
  BY <1>1, <1>2, <1>3, <1>4, ObserveTypes DEF Sides, FilesTyped
<1>6. /\ handler' \in [at : {"idle", "removed", "comparing", "reading", "updating", "removing"},
                      file : Files \cup {None}, data : Contents \cup {None}]
      /\ handler'.at # "updating" /\ (handler'.at # "idle" => handler'.file \in Files)
  BY <1>1, <1>2, <1>4 DEF Sides, Places
<1>7. Places' /\ AtWork'
  BY <1>1, <1>2, <1>4, <1>6, ObserveTypes DEF Sides, Places, AtWork
<1>8. Followed
  BY <1>1, <1>2, ElsewhereFollowed DEF queueVars, serviceVars
<1>. QED  BY <1>5, <1>7, <1>8 DEF Sides

\* The steps of the handler that publish nothing.
LEMMA HandlerLooks ==
  ASSUME FeedInv, CheckRemoved \/ Compare \/ ReadClient
  PROVE  Sides' /\ Followed
<1>1. Sides /\ Delivery /\ HookGenuine
  BY TypesSplit DEF FeedInv, Sides, Delivery
<1>2. handler.file \in Files /\ out["handler"] = {}
  BY <1>1 DEF CheckRemoved, Compare, ReadClient, Sides, AtWork
<1>3. UNCHANGED <<disk, events, lastRemove, fileAuthsByPath, currentAuths, runtimeAuths, log, hook, out, pending,
                  queue, processed, service, changes, reloads>>
  BY DEF CheckRemoved, Compare, ReadClient, fileVars, queueVars, serviceVars
<1>4. /\ \/ observeAuthFile(handler.file)
         \/ UNCHANGED <<scan, lastAuthHashes>>
         \/ UNCHANGED scan /\ disk[handler.file] \in Contents
            /\ lastAuthHashes' = [lastAuthHashes EXCEPT ![handler.file] = disk[handler.file]]
      /\ \/ handler' = HandlerIdle
         \/ \E at \in {"comparing", "removing", "reading"} : handler' = [handler EXCEPT !.at = at]
         \/ disk[handler.file] \in Contents
            /\ handler' = [handler EXCEPT !.at = "updating", !.data = disk[handler.file]]
  <2>1. CASE CheckRemoved
    BY <2>1, Zenon DEF CheckRemoved, Step
  <2>2. CASE Compare
    BY <2>2, Zenon DEF Compare, Step
  <2>3. CASE ReadClient
    <3>1. disk[handler.file] \in Contents \cup {None, Torn}
      BY <1>1, <1>2 DEF Sides, FilesTyped
    <3>2. Readable(disk[handler.file]) => disk[handler.file] \in Contents
      BY <3>1 DEF Readable
    <3>. QED  BY <2>3, <3>2, Zenon DEF ReadClient
  <2>. QED  BY <2>1, <2>2, <2>3
<1>5. /\ scan' \in [at : {"idle", "rescan", "rescanning", "begin", "reading", "committing"},
                    found : [Files -> Contents \cup {None, Torn}] \cup {<<>>}, stale : SUBSET Ids, force : BOOLEAN]
      /\ scan'.at = scan.at /\ scan'.found = scan.found
      /\ lastAuthHashes' \in [Files -> Contents \cup {None, Blank}]
  <2>1. CASE observeAuthFile(handler.file)
    BY <2>1, <1>1, <1>2, ObserveTypes
  <2>2. CASE ~observeAuthFile(handler.file)
    BY <2>2, <1>1, <1>2, <1>4 DEF Sides, Places, FilesTyped
  <2>. QED  BY <2>1, <2>2
<1>6. /\ handler' \in [at : {"idle", "removed", "comparing", "reading", "updating", "removing"},
                      file : Files \cup {None}, data : Contents \cup {None}]
      /\ handler'.at = "updating" => handler'.data \in Contents
      /\ handler'.at # "idle" => handler'.file \in Files
  <2>1. handler \in [at : {"idle", "removed", "comparing", "reading", "updating", "removing"},
                      file : Files \cup {None}, data : Contents \cup {None}]
    BY <1>1 DEF Sides, Places
  <2>2. CASE handler' = HandlerIdle
    BY <2>2 DEF HandlerIdle
  <2>3. ASSUME NEW at \in {"comparing", "removing", "reading"}, handler' = [handler EXCEPT !.at = at]
        PROVE  handler' \in [at : {"comparing", "removing", "reading"}, file : Files, data : Contents \cup {None}]
    BY <2>1, <2>3, <1>2
  <2>4. CASE disk[handler.file] \in Contents
             /\ handler' = [handler EXCEPT !.at = "updating", !.data = disk[handler.file]]
    BY <2>1, <2>4, <1>2
  <2>. QED  BY <1>4, <2>2, <2>3, <2>4
<1>7. FilesTyped'
  BY <1>1, <1>3, <1>5 DEF Sides, FilesTyped
<1>8. Places' /\ AtWork'
  BY <1>1, <1>2, <1>3, <1>5, <1>6 DEF Sides, Places, AtWork
<1>. QED  BY <1>1, <1>3, <1>7, <1>8, ElsewhereFollowed DEF Sides

\* The steps of the handler that publish what it has found.
LEMMA HandlerPublishes ==
  ASSUME FeedInv, IdAssumption, UpdateClient \/ RemoveClient
  PROVE  Sides' /\ Followed
<1>1. Sides /\ Delivery /\ HookGenuine
  BY TypesSplit DEF FeedInv, Sides, Delivery
<1>2. handler.file \in Files /\ out["handler"] = {} /\ (handler.at = "updating" => handler.data \in Contents)
  BY <1>1 DEF UpdateClient, RemoveClient, Sides, AtWork
<1>3. \E I \in SUBSET {handler.file}, v \in Values :
        /\ handler' = HandlerIdle /\ ScanStale(I)
        /\ stampAuthUpdatesLocked("handler", I, [i \in I |-> v])
        /\ fileAuthsByPath' \subseteq fileAuthsByPath \cup {handler.file}
        /\ currentAuths' \in [Ids -> Values]
        /\ lastAuthHashes' \in [Files -> Contents \cup {None, Blank}]
        /\ UNCHANGED <<disk, events, lastRemove, runtimeAuths, hook, pending, queue, processed, service,
                       changes, reloads>>
  <2>1. CASE UpdateClient
    <3>. DEFINE I == IF currentAuths[handler.file] # handler.data THEN {handler.file} ELSE {}
    <3>1. handler.data \in Values /\ I \in SUBSET {handler.file}
      BY <1>2, <2>1 DEF UpdateClient, Values
    <3>2. /\ handler' = HandlerIdle /\ ScanStale(I) /\ fileAuthsByPath' = fileAuthsByPath \cup {handler.file}
          /\ stampAuthUpdatesLocked("handler", I, [i \in I |-> handler.data])
          /\ currentAuths' = [currentAuths EXCEPT ![handler.file] = handler.data]
          /\ UNCHANGED <<fileVars, lastRemove, lastAuthHashes, runtimeAuths, hook, queueVars, serviceVars,
                         changes, reloads>>
      BY <2>1, Zenon DEF UpdateClient
    <3>3. /\ currentAuths' \in [Ids -> Values]
          /\ lastAuthHashes' \in [Files -> Contents \cup {None, Blank}]
          /\ UNCHANGED <<disk, events, lastRemove, runtimeAuths, hook, pending, queue, processed, service,
                       changes, reloads>>
      BY <3>1, <3>2, <1>1 DEF Sides, FilesTyped, fileVars, queueVars, serviceVars
    <3>. HIDE DEF I
    <3>. QED  BY <3>1, <3>2, <3>3
  <2>2. CASE RemoveClient
    <3>. DEFINE I == {handler.file} \cap fileAuthsByPath
    <3>1. None \in Values /\ I \in SUBSET {handler.file}
      BY DEF Values
    <3>2. /\ handler' = HandlerIdle /\ ScanStale(I) /\ fileAuthsByPath' = fileAuthsByPath \ {handler.file}
          /\ stampAuthUpdatesLocked("handler", I, [i \in I |-> None])
          /\ currentAuths' = [i \in Ids |-> IF i \in I THEN None ELSE currentAuths[i]]
          /\ lastAuthHashes' = [lastAuthHashes EXCEPT ![handler.file] = None]
          /\ UNCHANGED <<fileVars, lastRemove, runtimeAuths, hook, queueVars, serviceVars, changes, reloads>>
      BY <2>2, Zenon DEF RemoveClient
    <3>3. /\ currentAuths' \in [Ids -> Values]
          /\ lastAuthHashes' \in [Files -> Contents \cup {None, Blank}]
          /\ UNCHANGED <<disk, events, lastRemove, runtimeAuths, hook, pending, queue, processed, service,
                       changes, reloads>>
      BY <3>1, <3>2, <1>1 DEF Sides, FilesTyped, fileVars, queueVars, serviceVars
    <3>. HIDE DEF I
    <3>. QED  BY <3>1, <3>2, <3>3
  <2>. QED  BY <2>1, <2>2
<1>4. PICK I \in SUBSET {handler.file}, v \in Values :
        /\ handler' = HandlerIdle /\ ScanStale(I)
        /\ stampAuthUpdatesLocked("handler", I, [i \in I |-> v])
        /\ fileAuthsByPath' \subseteq fileAuthsByPath \cup {handler.file}
        /\ currentAuths' \in [Ids -> Values]
        /\ lastAuthHashes' \in [Files -> Contents \cup {None, Blank}]
        /\ UNCHANGED <<disk, events, lastRemove, runtimeAuths, hook, pending, queue, processed, service,
                       changes, reloads>>
  BY <1>3
<1>5. "handler" \in Procs /\ I \in SUBSET Ids /\ \A i \in I : [j \in I |-> v][i] \in Values
  BY <1>2 DEF Procs, Ids
<1>6. Delivery' /\ (\A u \in Updates : Genuine(u) => Genuine(u)') /\ Feed!Next
  BY <1>1, <1>2, <1>4, <1>5, StampKeeps
<1>7. HookGenuine'
  BY <1>1, <1>4, <1>6, HookStaysIn DEF Sides
<1>8. \A p \in Procs : p # "handler" => out'[p] = out[p]
  BY <1>1, <1>4 DEF stampAuthUpdatesLocked, Delivery, FeedTyped
<1>9. FilesTyped'
  BY <1>1, <1>2, <1>4 DEF Sides, FilesTyped
<1>10. handler' \in [at : {"idle", "removed", "comparing", "reading", "updating", "removing"},
                     file : Files \cup {None}, data : Contents \cup {None}] /\ handler'.at = "idle"
  BY <1>4 DEF HandlerIdle
<1>11. Places'
  BY <1>1, <1>4, <1>5, <1>10, StaleTypes DEF Sides, Places
<1>12. AtWork'
  BY <1>1, <1>4, <1>5, <1>8, <1>10, StaleTypes DEF Sides, AtWork, Procs
<1>. QED  BY <1>6, <1>7, <1>9, <1>11, <1>12 DEF Sides, Followed

LEMMA ScanStep ==
  ASSUME FeedInv, IdAssumption, Scan
  PROVE  Sides' /\ Followed
<1>1. Sides /\ Delivery /\ HookGenuine
  BY TypesSplit DEF FeedInv, Sides, Delivery
<1>. USE DEF fileVars, stateVars, queueVars, serviceVars
<1>2. ASSUME RescanRead  PROVE Sides' /\ Followed
  <2>1. scan' = [scan EXCEPT !.at = "rescanning", !.found = disk] /\ scan.at = "rescan"
    BY <1>2 DEF RescanRead
  <2>2. scan' \in [at : {"rescanning"}, found : [Files -> Contents \cup {None, Torn}],
                   stale : SUBSET Ids, force : BOOLEAN]
    BY <2>1, <1>1 DEF Sides, Places, FilesTyped
  <2>3. UNCHANGED <<disk, changes, reloads, events, lastRemove, fileAuthsByPath, lastAuthHashes, currentAuths,
                    runtimeAuths, handler, hook, log, out, pending, queue, processed, service>>
    BY <1>2 DEF RescanRead
  <2>4. FilesTyped' /\ Places' /\ AtWork'
    BY <1>1, <2>1, <2>2, <2>3 DEF Sides, FilesTyped, Places, AtWork
  <2>. QED  BY <1>1, <2>3, <2>4, ElsewhereFollowed DEF Sides
<1>3. ASSUME RescanCommit  PROVE Sides' /\ Followed
  <2>1. /\ scan' = [scan EXCEPT !.at = "begin", !.found = <<>>] /\ scan.at = "rescanning"
        /\ lastAuthHashes' = [f \in Files |-> IF Readable(scan.found[f]) THEN scan.found[f] ELSE None]
        /\ fileAuthsByPath' \subseteq Files
    BY <1>3 DEF RescanCommit
  <2>2. scan' \in [at : {"begin"}, found : {<<>>}, stale : SUBSET Ids, force : BOOLEAN]
    BY <2>1, <1>1 DEF Sides, Places
  <2>3. UNCHANGED <<disk, changes, reloads, events, lastRemove, currentAuths,
                    runtimeAuths, handler, hook, log, out, pending, queue, processed, service>>
    BY <1>3 DEF RescanCommit
  <2>4. \A f \in Files : scan.found[f] \in Contents \cup {None, Torn}
    BY <1>1, <2>1 DEF Sides, AtWork
  <2>5. lastAuthHashes' \in [Files -> Contents \cup {None, Blank}]
    BY <2>1, <2>4 DEF Readable
  <2>6. FilesTyped' /\ Places' /\ AtWork'
    BY <1>1, <2>1, <2>2, <2>3, <2>5 DEF Sides, FilesTyped, Places, AtWork
  <2>. QED  BY <1>1, <2>3, <2>6, ElsewhereFollowed DEF Sides
<1>4. ASSUME ScanBegin \/ ScanRead  PROVE Sides' /\ Followed
  <2>1. /\ scan.at \in {"begin", "reading"}
        /\ \/ scan' = [scan EXCEPT !.at = "reading"]
           \/ scan' = [scan EXCEPT !.at = "committing", !.found = disk]
        /\ UNCHANGED <<disk, changes, reloads, events, lastRemove, fileAuthsByPath, lastAuthHashes, currentAuths,
                       runtimeAuths, handler, hook, log, out, pending, queue, processed, service>>
    BY <1>4 DEF ScanBegin, ScanRead
  <2>2. /\ scan' \in [at : {"reading", "committing"}, found : [Files -> Contents \cup {None, Torn}] \cup {<<>>},
                      stale : SUBSET Ids, force : BOOLEAN]
        /\ scan'.at = "committing" => scan'.found \in [Files -> Contents \cup {None, Torn}]
    BY <1>1, <2>1 DEF Sides, Places, FilesTyped
  <2>3. FilesTyped' /\ Places' /\ AtWork'
    BY <1>1, <2>1, <2>2 DEF Sides, FilesTyped, Places, AtWork
  <2>. QED  BY <1>1, <2>1, <2>3, ElsewhereFollowed DEF Sides
<1>5. ASSUME prepareAuthUpdatesLocked  PROVE Sides' /\ Followed
  <2>. DEFINE I == {i \in Ids : newState[i] # currentAuths[i] \/ (scan.force /\ newState[i] # None)}
  <2>1. /\ scan.at = "committing" /\ stampAuthUpdatesLocked("scan", I, newState)
        /\ currentAuths' = newState /\ scan' = ScanIdle
        /\ UNCHANGED <<disk, changes, reloads, events, lastRemove, fileAuthsByPath, lastAuthHashes,
                       runtimeAuths, handler, hook, pending, queue, processed, service>>
    BY <1>5, Zenon DEF prepareAuthUpdatesLocked
  <2>2. newState \in [Ids -> Values]
    <3>1. \A f \in Files : scan.found[f] \in Contents \cup {None, Torn}
      BY <1>1, <2>1 DEF Sides, AtWork
    <3>2. \A i \in Ids : IF i \in Runtime THEN runtimeAuths[i] \in Values
                         ELSE currentAuths[i] \in Values /\ scan.found[i] \in Values \cup {Torn}
      BY <3>1, <1>1 DEF Sides, FilesTyped, Ids, Values
    <3>3. None \in Values
      BY DEF Values
    <3>. QED  BY <3>2, <3>3 DEF newState, Readable
  <2>3. "scan" \in Procs /\ out["scan"] = {} /\ I \in SUBSET Ids /\ \A i \in I : newState[i] \in Values
    BY <1>1, <2>1, <2>2 DEF Sides, AtWork, Procs
  <2>4. Delivery' /\ (\A u \in Updates : Genuine(u) => Genuine(u)') /\ Feed!Next
    BY <1>1, <2>1, <2>3, StampKeeps
  <2>5. HookGenuine'
    BY <1>1, <2>1, <2>4, HookStaysIn DEF Sides
  <2>6. \A p \in Procs : p # "scan" => out'[p] = out[p]
    BY <1>1, <2>1 DEF stampAuthUpdatesLocked, Delivery, FeedTyped
  <2>7. scan' \in [at : {"idle"}, found : {<<>>}, stale : SUBSET Ids, force : BOOLEAN]
    BY <2>1 DEF ScanIdle
  <2>8. FilesTyped' /\ Places'
    BY <1>1, <2>1, <2>2, <2>7 DEF Sides, FilesTyped, Places
  <2>9. AtWork'
    BY <1>1, <2>1, <2>6, <2>7 DEF Sides, AtWork, Procs
  <2>. QED  BY <2>4, <2>5, <2>8, <2>9 DEF Sides, Followed
<1>. QED  BY <1>2, <1>3, <1>4, <1>5 DEF Scan

LEMMA ReloadStep ==
  ASSUME FeedInv, BoundAssumption, NEW affected \in SUBSET Files, NEW force \in BOOLEAN, Reload(affected, force)
  PROVE  Sides' /\ Followed
<1>1. Sides /\ Delivery /\ HookGenuine
  BY TypesSplit DEF FeedInv, Sides, Delivery
<1>2. /\ scan.at = "idle" /\ out["scan"] = {} /\ reloads < MaxReloads /\ reloads' = reloads + 1
      /\ currentAuths' = [i \in Ids |-> IF i \in affected THEN None ELSE currentAuths[i]]
      /\ scan' = [scan EXCEPT !.at = "begin", !.force = force]
      /\ UNCHANGED <<disk, changes, events, lastRemove, fileAuthsByPath, lastAuthHashes,
                     runtimeAuths, handler, hook, log, out, pending, queue, processed, service>>
  BY DEF Reload, fileVars, queueVars, serviceVars
<1>3. reloads' \in 0..MaxReloads
  BY <1>1, <1>2 DEF BoundAssumption, Sides, FilesTyped
<1>4. currentAuths' \in [Ids -> Values]
  BY <1>1, <1>2 DEF Sides, FilesTyped, Values
<1>5. scan' \in [at : {"begin"}, found : [Files -> Contents \cup {None, Torn}] \cup {<<>>},
                 stale : SUBSET Ids, force : BOOLEAN]
  BY <1>1, <1>2 DEF Sides, Places
<1>6. FilesTyped' /\ Places' /\ AtWork'
  BY <1>1, <1>2, <1>3, <1>4, <1>5 DEF Sides, FilesTyped, Places, AtWork
<1>. QED  BY <1>1, <1>2, <1>6, ElsewhereFollowed DEF Sides

LEMMA SaveStep ==
  ASSUME FeedInv, BoundAssumption, NEW f \in Files, Save(f)
  PROVE  Sides' /\ Followed
<1>1. Sides /\ Delivery /\ HookGenuine
  BY TypesSplit DEF FeedInv, Sides, Delivery
<1>2. /\ hook.at = "idle" /\ out["hook"] = {} /\ changes < MaxChanges /\ changes' = changes + 1
      /\ disk' = [disk EXCEPT ![f] = changes + 1]
      /\ events' = Append(events, [file |-> f, op |-> "write"])
      /\ hook' = [hook EXCEPT !.at = "saved", !.file = f, !.data = changes + 1]
      /\ UNCHANGED <<reloads, lastRemove, fileAuthsByPath, lastAuthHashes, currentAuths,
                     runtimeAuths, handler, scan, log, out, pending, queue, processed, service>>
  BY DEF Save, Counting, stateVars, queueVars, serviceVars
<1>3. changes' \in 0..MaxChanges /\ changes + 1 \in Contents
  BY <1>1, <1>2 DEF BoundAssumption, Sides, FilesTyped, Contents
<1>4. events' \in Seq([file : Files, op : {"write", "remove"}])
  BY <1>1, <1>2, AppendProperties DEF Sides, FilesTyped
<1>5. hook' \in [at : {"saved"}, file : Files, data : Contents, rev : Nat]
  BY <1>1, <1>2, <1>3 DEF Sides, Places
<1>6. FilesTyped' /\ Places' /\ AtWork'
  BY <1>1, <1>2, <1>3, <1>4, <1>5 DEF Sides, FilesTyped, Places, AtWork
<1>. QED  BY <1>1, <1>2, <1>5, <1>6, ElsewhereFollowed DEF Sides

LEMMA HookStep ==
  ASSUME FeedInv, IdAssumption, Hook
  PROVE  Sides' /\ Followed
<1>1. Sides /\ Delivery /\ HookGenuine
  BY TypesSplit DEF FeedInv, Sides, Delivery
<1>2. ASSUME HookApply  PROVE Sides' /\ Followed
  <2>1. /\ hook' = HookIdle
        /\ UNCHANGED <<disk, changes, events, reloads, lastRemove, fileAuthsByPath, lastAuthHashes, currentAuths,
                       runtimeAuths, handler, scan, out>>
    BY <1>2 DEF HookApply, fileVars, stateVars, queueVars
  <2>2. hook' \in [at : {"idle"}, file : {None}, data : {None}, rev : Nat]
    BY <2>1 DEF HookIdle
  <2>3. FilesTyped' /\ Places' /\ AtWork' /\ HookGenuine'
    BY <1>1, <2>1, <2>2 DEF Sides, FilesTyped, Places, AtWork, HookGenuine
  <2>. QED  BY <1>1, <1>2, <2>3, HookApplyKeeps DEF Sides, Followed
<1>3. ASSUME dispatchPersistedAuthUpdate  PROVE Sides' /\ Followed
  <2>. DEFINE f == hook.file
  <2>1. /\ hook.at = "saved" /\ fileAuthsByPath' = fileAuthsByPath \cup {f}
        /\ currentAuths' = [currentAuths EXCEPT ![f] = hook.data]
        /\ stampAuthUpdatesLocked("hook", {f}, [i \in {f} |-> hook.data])
        /\ ScanStale({f})
        /\ hook' = [hook EXCEPT !.at = "applying", !.rev = Revision(f) + 1]
        /\ UNCHANGED <<disk, changes, events, reloads, lastRemove, lastAuthHashes,
                       runtimeAuths, handler, pending, queue, processed, service>>
    BY <1>3 DEF dispatchPersistedAuthUpdate, fileVars, queueVars, serviceVars
  <2>2. f \in Files /\ f \in Ids /\ hook.data \in Contents /\ hook.data \in Values /\ out["hook"] = {}
    BY <1>1, <2>1 DEF Sides, AtWork, Ids, Values
  <2>3. "hook" \in Procs /\ {f} \in SUBSET Ids /\ \A i \in {f} : [j \in {f} |-> hook.data][i] \in Values
    BY <2>2 DEF Procs
  <2>. HIDE DEF f
  <2>4. /\ Delivery' /\ Feed!Next
        /\ \A i \in {f} : \A u : u = Update(i, Revision(i) + 1, [j \in {f} |-> hook.data][i]) =>
               u \in Updates /\ Genuine(u)'
    BY <1>1, <2>1, <2>2, <2>3, StampKeeps
  <2>5. Revision(f) \in Nat
    BY <1>1, <2>2, LogTypes DEF Delivery
  <2>6. /\ hook' \in [at : {"applying"}, file : Files, data : Contents, rev : Nat]
        /\ hook'.file = f /\ hook'.rev = Revision(f) + 1 /\ hook'.data = hook.data
    <3>1. hook \in [at : {"idle", "saved", "applying"}, file : Files \cup {None},
                    data : Contents \cup {None}, rev : Nat]
      BY <1>1 DEF Sides, Places
    <3>2. hook.file \in Files /\ hook.data \in Contents /\ Revision(f) + 1 \in Nat
      BY <2>2, <2>5 DEF f
    <3>. QED  BY <3>1, <3>2, <2>1 DEF f
  <2>7. HookGenuine'
    <3>1. PICK u : u = Update(f, Revision(f) + 1, hook.data)
      OBVIOUS
    <3>2. Genuine(u)'
      BY <2>4, <3>1
    <3>3. Update(hook.file, hook.rev, hook.data)' = u
      BY <2>6, <3>1 DEF Update
    <3>. QED  BY <3>2, <3>3 DEF HookGenuine, Genuine
  <2>8. \A p \in Procs : p # "hook" => out'[p] = out[p]
    BY <1>1, <2>1 DEF stampAuthUpdatesLocked, Delivery, FeedTyped
  <2>9. FilesTyped' /\ Places'
    BY <1>1, <2>1, <2>2, <2>3, <2>6, StaleTypes DEF Sides, FilesTyped, Places
  <2>10. AtWork'
    BY <1>1, <2>1, <2>3, <2>6, <2>8, StaleTypes DEF Sides, AtWork, Procs
  <2>. QED  BY <2>4, <2>7, <2>9, <2>10 DEF Sides, Followed
<1>. QED  BY <1>2, <1>3 DEF Hook

LEMMA ChannelStep ==
  ASSUME FeedInv, IdAssumption, BoundAssumption, Channel
  PROVE  Sides' /\ Followed
<1>1. Sides /\ Delivery /\ HookGenuine
  BY TypesSplit DEF FeedInv, Sides, Delivery
<1>2. PICK r \in Runtime, p \in {"connect", "disconnect"}, v \in {Online, None} :
        dispatchRuntimeAuthUpdate(p, r, v)
  BY DEF Channel, wsOnConnected, wsOnDisconnected
<1>3. /\ out[p] = {} /\ changes < MaxChanges /\ changes' = changes + 1
      /\ runtimeAuths' = [runtimeAuths EXCEPT ![r] = v]
      /\ currentAuths' = [currentAuths EXCEPT ![r] = v]
      /\ stampAuthUpdatesLocked(p, {r}, [i \in {r} |-> v])
      /\ ScanStale({r})
      /\ UNCHANGED <<disk, events, lastRemove, lastAuthHashes, fileAuthsByPath, handler, hook, pending, queue,
                     processed, service, reloads>>
  BY <1>2 DEF dispatchRuntimeAuthUpdate, Counting, fileVars, queueVars, serviceVars
<1>4. v \in Values /\ r \in Ids /\ p \in Procs
  BY DEF Values, Ids, Procs
<1>5. {r} \in SUBSET Ids /\ \A i \in {r} : [j \in {r} |-> v][i] \in Values
  BY <1>4
<1>6. Delivery' /\ (\A u \in Updates : Genuine(u) => Genuine(u)') /\ Feed!Next
  BY <1>1, <1>3, <1>4, <1>5, StampKeeps
<1>7. HookGenuine'
  BY <1>1, <1>3, <1>6, HookStaysIn DEF Sides
<1>8. out'["handler"] = out["handler"] /\ out'["scan"] = out["scan"] /\ out'["hook"] = out["hook"]
  BY <1>1, <1>3 DEF stampAuthUpdatesLocked, Delivery, FeedTyped, Procs
<1>9. FilesTyped'
  BY <1>1, <1>3, <1>4 DEF Sides, FilesTyped, BoundAssumption
<1>10. Places'
  BY <1>1, <1>3, <1>5, StaleTypes DEF Sides, Places
<1>11. AtWork'
  BY <1>1, <1>3, <1>5, <1>8, StaleTypes DEF Sides, AtWork
<1>. QED  BY <1>6, <1>7, <1>9, <1>10, <1>11 DEF Sides, Followed

LEMMA QueueStep ==
  ASSUME FeedInv, (\E p \in Procs : dispatchAuthUpdates(p)) \/ nextPendingBatch \/ Consume
  PROVE  Sides' /\ Followed
<1>1. Sides /\ Delivery /\ HookGenuine
  BY TypesSplit DEF FeedInv, Sides, Delivery
<1>2. /\ Delivery' /\ (Feed!Next \/ UNCHANGED Feed!vars) /\ \A u : Genuine(u) => Genuine(u)'
  BY <1>1, DispatchKeeps, BatchKeeps, ConsumeKeeps DEF Consume, Feed!vars
<1>3. UNCHANGED <<disk, changes, events, reloads, lastRemove, fileAuthsByPath, lastAuthHashes, currentAuths,
                  runtimeAuths, handler, scan, hook>>
  BY DEF dispatchAuthUpdates, nextPendingBatch, Consume, consumeAuthUpdates, fileVars, stateVars
<1>4. HookGenuine'
  BY <1>1, <1>2, <1>3, HookStays
<1>5. \A p \in Procs : out[p] = {} => out'[p] = {}
  BY <1>1 DEF dispatchAuthUpdates, nextPendingBatch, Consume, consumeAuthUpdates, Delivery, FeedTyped
<1>6. FilesTyped' /\ Places'
  BY <1>1, <1>3 DEF Sides, FilesTyped, Places
<1>7. AtWork'
  BY <1>1, <1>3, <1>5 DEF Sides, AtWork, Procs
<1>. QED  BY <1>2, <1>4, <1>6, <1>7 DEF Sides, Followed

-----------------------------------------------------------------------------
LEMMA FeedInit ==
  ASSUME Init, IdAssumption, BoundAssumption  PROVE FeedInv /\ Feed!Init
<1>. USE DEF Init
<1>1. FilesTyped
  BY DEF FilesTyped, Values, BoundAssumption
<1>7. Places
  BY DEF Places, HandlerIdle, ScanIdle, HookIdle
<1>2. AtWork
  BY DEF AtWork, HandlerIdle, ScanIdle, HookIdle, Procs
<1>3. FeedTyped
  BY DEF FeedTyped, Values
<1>4. FiniteBatches /\ AllGenuine
  BY FS_EmptySet DEF FiniteBatches, AllGenuine
<1>5. HookGenuine /\ Served /\ NewestOnItsWay
  BY DEF HookGenuine, HookIdle, Served, NewestOnItsWay, Revision
<1>6. Feed!Init
  BY DEF Feed!Init, Values
<1>. QED  BY <1>1, <1>2, <1>3, <1>4, <1>5, <1>6, <1>7, TypesSplit DEF FeedInv

LEMMA FeedStep ==
  ASSUME FeedInv, IdAssumption, BoundAssumption, [Next]_vars
  PROVE  FeedInv' /\ (Feed!Next \/ UNCHANGED Feed!vars)
<1>1. Sides' /\ Followed
  <2>1. CASE UNCHANGED vars
    <3>1. Sides /\ Delivery /\ HookGenuine
      BY TypesSplit DEF FeedInv, Sides, Delivery
    <3>. USE <2>1 DEF vars, fileVars, stateVars, queueVars, serviceVars
    <3>2. Sides'
      BY <3>1 DEF Sides, FilesTyped, Places, AtWork
    <3>. QED  BY <3>1, <3>2, ElsewhereFollowed
  <2>2. CASE Outside
    BY <2>2, OutsideStep
  <2>3. CASE HandleEvent
    BY <2>3, HandleEventStep
  <2>4. CASE Handler
    BY <2>4, HandlerLooks, HandlerPublishes DEF Handler
  <2>5. CASE Scan
    BY <2>5, ScanStep
  <2>6. CASE Hook
    BY <2>6, HookStep
  <2>7. CASE Channel
    BY <2>7, ChannelStep
  <2>8. CASE \E affected \in SUBSET Files, force \in BOOLEAN : Reload(affected, force)
    BY <2>8, ReloadStep
  <2>9. CASE \E f \in Files : Save(f)
    BY <2>9, SaveStep
  <2>10. CASE (\E p \in Procs : dispatchAuthUpdates(p)) \/ nextPendingBatch \/ Consume
    BY <2>10, QueueStep
  <2>. QED  BY <2>1, <2>2, <2>3, <2>4, <2>5, <2>6, <2>7, <2>8, <2>9, <2>10 DEF Next
<1>2. TypeOK'
  BY <1>1, TypesSplit DEF Sides, Followed, Delivery, Places, TypeOK, FilesTyped, FeedTyped
<1>. QED  BY <1>1, <1>2 DEF FeedInv, Sides, Followed, Delivery

THEOREM FeedInvariant == Spec => []FeedInv
<1>1. Init => FeedInv
  BY FeedInit, IdAssumption, BoundAssumption
<1>2. FeedInv /\ [Next]_vars => FeedInv'
  BY FeedStep, IdAssumption, BoundAssumption
<1>. QED  BY <1>1, <1>2, PTL DEF Spec

\* Every variable keeps its type, whatever the files and the channels do.
THEOREM TypeCorrect == Spec => []TypeOK
<1>1. FeedInv => TypeOK
  BY DEF FeedInv
<1>. QED  BY <1>1, FeedInvariant, PTL

\* The service follows the log of published updates: what it holds of a credential
\* is always one entry of it, and never an older one than before.
THEOREM ServiceFollowsFeed == Spec => FollowsFeed
<1>1. Init => Feed!Init
  BY FeedInit, IdAssumption, BoundAssumption
<1>2. FeedInv /\ [Next]_vars => [Feed!Next]_(Feed!vars)
  BY FeedStep, IdAssumption, BoundAssumption
<1>. QED  BY <1>1, <1>2, FeedInvariant, PTL DEF Spec, FollowsFeed, Feed!Spec

-----------------------------------------------------------------------------
\* Why no file is missed, when none is changed while the hook publishes it: a file
\* that can be read is served already, or somebody is going to publish it.

Published(i) == IF Revision(i) = 0 THEN None ELSE log[i][Revision(i)]

Written(f) == [file |-> f, op |-> "write"]
Removal(f) == [file |-> f, op |-> "remove"]
Noticed(f) == \E k \in 1..Len(events) : events[k] = Written(f)

Updating(f) == handler.at = "updating" /\ handler.file = f /\ handler.data = disk[f]
HandlerWill(f) == \/ Updating(f)
                  \/ /\ handler.at \in {"comparing", "reading"} /\ handler.file = f
                     /\ lastAuthHashes[f] # disk[f]
ScanWill(f) == \/ scan.at \in {"rescan", "rescanning", "begin"}
               \/ scan.at = "reading" /\ f \notin scan.stale
               \/ scan.at = "committing" /\ f \notin scan.stale /\ scan.found[f] = disk[f]
HookWill(f) == hook.at = "saved" /\ hook.file = f
Done(f) == currentAuths[f] = disk[f]

Covered(f) == Noticed(f) \/ HandlerWill(f) \/ ScanWill(f) \/ HookWill(f) \/ Done(f)

\* A hash that matches is no reason to forget the file: only the handler that is
\* about to publish the content caches it, or a scan that is going to read again.
HashTrue(f) == lastAuthHashes[f] = disk[f] => Updating(f) \/ ScanWill(f) \/ HookWill(f) \/ Done(f)

\* A scan publishes old content over new only where it has not been noticed yet.
ScanTrue(f) == scan.at = "committing" /\ f \notin scan.stale /\ scan.found[f] # disk[f] => ~Done(f)

\* A file that is there again was written after it was removed.
WrittenSince(f) ==
  disk[f] # None => \A k \in 1..Len(events) : events[k] = Removal(f) =>
                      \E j \in k + 1..Len(events) : events[j] = Written(f)

Attended(f) == Covered(f) /\ HashTrue(f) /\ ScanTrue(f)

\* What the handler, the hook and the scan have in hand is up to date, or noticed.
InHand ==
  /\ handler.at = "updating" => /\ lastAuthHashes[handler.file] = handler.data
                                /\ \/ handler.data = disk[handler.file] \/ Noticed(handler.file)
                                   \/ ~Readable(disk[handler.file])
  /\ handler.at = "removing" => ~Readable(disk[handler.file]) \/ Noticed(handler.file)
  /\ hook.at # "idle" => disk[hook.file] = hook.data
  /\ scan.at \in {"idle", "rescan", "rescanning", "begin"} => scan.stale = {}
  /\ scan.at = "rescanning" => handler.at = "idle"

\* Every content so far is older than the next one.
Numbered ==
  /\ \A f \in Files : /\ disk[f] <= changes /\ lastAuthHashes[f] <= changes
                      /\ currentAuths[f] <= changes
                      /\ scan.at \in {"rescanning", "committing"} => scan.found[f] <= changes
  /\ handler.data <= changes /\ hook.data <= changes

\* What the watcher believes is what it has published last, or forgotten to publish
\* it again.
Believed == /\ \A f \in Files : currentAuths[f] = None \/ currentAuths[f] = Published(f)
            /\ \A r \in Runtime : currentAuths[r] = runtimeAuths[r] /\ currentAuths[r] = Published(r)

MissInv == /\ FeedInv /\ InHand /\ Numbered /\ Believed
           /\ \A f \in Files : WrittenSince(f) /\ (Readable(disk[f]) => Attended(f))

-----------------------------------------------------------------------------
\* The queue of events.

FileEvents == [file : Files, op : {"write", "remove"}]

LEMMA EventAppended ==
  ASSUME FilesTyped, NEW e \in FileEvents, events' = Append(events, e)
  PROVE  /\ \A f \in Files : Noticed(f) => Noticed(f)'
         /\ \A f \in Files : e = Written(f) => Noticed(f)'
         /\ \A f \in Files : WrittenSince(f) /\ disk'[f] = disk[f] /\ e # Removal(f) => WrittenSince(f)'
         /\ \A f \in Files : e = Written(f) => WrittenSince(f)'
<1>1. events \in Seq(FileEvents) /\ Len(events) \in Nat
  BY DEF FilesTyped, FileEvents
<1>2. /\ Len(events') = Len(events) + 1 /\ events'[Len(events) + 1] = e
      /\ \A k \in 1..Len(events) : events'[k] = events[k]
  BY <1>1, AppendProperties
<1>3. \A f \in Files : Noticed(f) => Noticed(f)'
  <2>. SUFFICES ASSUME NEW f \in Files, NEW k \in 1..Len(events), events[k] = Written(f)
                PROVE  \E j \in 1..Len(events') : events'[j] = Written(f)
    BY DEF Noticed, Written
  <2>1. k \in 1..Len(events') /\ events'[k] = Written(f)
    BY <1>1, <1>2
  <2>. QED  BY <2>1
<1>4. \A f \in Files : e = Written(f) => Noticed(f)'
  <2>1. Len(events') \in 1..Len(events')
    BY <1>1, <1>2
  <2>. QED  BY <1>2, <2>1 DEF Noticed, Written
<1>5. \A f \in Files : WrittenSince(f) /\ disk'[f] = disk[f] /\ e # Removal(f) => WrittenSince(f)'
  <2>. SUFFICES ASSUME NEW f \in Files, WrittenSince(f), disk'[f] = disk[f], e # Removal(f), disk[f] # None,
                       NEW k \in 1..Len(events'), events'[k] = Removal(f)
                PROVE  \E j \in k + 1..Len(events') : events'[j] = Written(f)
    BY DEF WrittenSince, Removal, Written
  <2>1. k \in 1..Len(events) /\ events[k] = Removal(f)
    BY <1>1, <1>2
  <2>2. PICK j \in k + 1..Len(events) : events[j] = Written(f)
    BY <2>1 DEF WrittenSince
  <2>3. j \in k + 1..Len(events') /\ j \in 1..Len(events)
    BY <1>1, <1>2, <2>1, <2>2
  <2>. QED  BY <2>2, <2>3, <1>2
<1>6. \A f \in Files : e = Written(f) => WrittenSince(f)'
  <2>. SUFFICES ASSUME NEW f \in Files, e = Written(f), NEW k \in 1..Len(events'), events'[k] = Removal(f)
                PROVE  \E j \in k + 1..Len(events') : events'[j] = Written(f)
    BY DEF WrittenSince, Removal, Written
  <2>1. Written(f) # Removal(f)
    BY DEF Written, Removal
  <2>2. Len(events') \in k + 1..Len(events')
    BY <2>1, <1>1, <1>2
  <2>. QED  BY <2>2, <1>2
<1>. QED  BY <1>3, <1>4, <1>5, <1>6

LEMMA EventTaken ==
  ASSUME FilesTyped, events # <<>>, events' = Tail(events), disk' = disk
  PROVE  /\ \A f \in Files : Noticed(f) /\ Head(events) # Written(f) => Noticed(f)'
         /\ \A f \in Files : WrittenSince(f) => WrittenSince(f)'
         /\ \A f \in Files : WrittenSince(f) /\ disk[f] # None /\ Head(events) = Removal(f) => Noticed(f)'
<1>1. events \in Seq(FileEvents) /\ Len(events) \in Nat /\ Len(events) > 0 /\ Head(events) = events[1]
  BY EmptySeq DEF FilesTyped, FileEvents
<1>2. /\ Len(events') = Len(events) - 1 /\ Len(events') \in Nat
      /\ \A k \in 1..Len(events') : events'[k] = events[k + 1]
  BY <1>1, HeadTailProperties
<1>3. \A k \in 2..Len(events) : k - 1 \in 1..Len(events') /\ events'[k - 1] = events[k]
  BY <1>1, <1>2
<1>4. \A f \in Files : Noticed(f) /\ Head(events) # Written(f) => Noticed(f)'
  <2>. SUFFICES ASSUME NEW f \in Files, NEW k \in 1..Len(events), events[k] = Written(f), events[1] # Written(f)
                PROVE  \E j \in 1..Len(events') : events'[j] = Written(f)
    BY <1>1 DEF Noticed, Written
  <2>1. k \in 2..Len(events)
    BY <1>1
  <2>. QED  BY <2>1, <1>3
<1>5. \A f \in Files : WrittenSince(f) => WrittenSince(f)'
  <2>. SUFFICES ASSUME NEW f \in Files, WrittenSince(f), disk[f] # None,
                       NEW k \in 1..Len(events'), events'[k] = Removal(f)
                PROVE  \E j \in k + 1..Len(events') : events'[j] = Written(f)
    BY DEF WrittenSince, Removal, Written
  <2>1. k + 1 \in 1..Len(events) /\ events[k + 1] = Removal(f)
    BY <1>2
  <2>2. PICK j \in k + 1 + 1..Len(events) : events[j] = Written(f)
    BY <2>1 DEF WrittenSince
  <2>3. j - 1 \in k + 1..Len(events') /\ j \in 2..Len(events)
    BY <1>2, <2>2
  <2>. QED  BY <2>2, <2>3, <1>3
<1>6. \A f \in Files : WrittenSince(f) /\ disk[f] # None /\ Head(events) = Removal(f) => Noticed(f)'
  <2>. SUFFICES ASSUME NEW f \in Files, WrittenSince(f), disk[f] # None, events[1] = Removal(f)
                PROVE  \E j \in 1..Len(events') : events'[j] = Written(f)
    BY <1>1 DEF Noticed, Written
  <2>1. PICK j \in 1 + 1..Len(events) : events[j] = Written(f)
    BY <1>1 DEF WrittenSince
  <2>2. j \in 2..Len(events)
    BY <1>1, <2>1
  <2>. QED  BY <2>1, <2>2, <1>3
<1>. QED  BY <1>4, <1>5, <1>6

\* What was published last.
LEMMA PublishedStamped ==
  ASSUME FeedTyped, NEW p, NEW I \in SUBSET Ids, NEW value, \A i \in I : value[i] \in Values,
         stampAuthUpdatesLocked(p, I, value)
  PROVE  \A i \in Ids : Published(i)' = IF i \in I THEN value[i] ELSE Published(i)
<1>. SUFFICES ASSUME NEW i \in Ids  PROVE Published(i)' = IF i \in I THEN value[i] ELSE Published(i)
  OBVIOUS
<1>1. log[i] \in Seq(Values) /\ Len(log[i]) \in Nat
  BY DEF FeedTyped
<1>2. log'[i] = IF i \in I THEN Append(log[i], value[i]) ELSE log[i]
  BY DEF stampAuthUpdatesLocked
<1>3. i \in I => Len(log'[i]) = Len(log[i]) + 1 /\ log'[i][Len(log[i]) + 1] = value[i]
  BY <1>1, <1>2, AppendProperties
<1>. QED  BY <1>1, <1>2, <1>3 DEF Published, Revision

LEMMA PublishedSame == log' = log => \A i : Published(i)' = Published(i)
BY DEF Published, Revision

LEMMA NumberTypes ==
  ASSUME FeedInv
  PROVE  /\ changes \in Nat
         /\ \A f \in Files : disk[f] \in Int /\ lastAuthHashes[f] \in Int /\ currentAuths[f] \in Int
         /\ scan.at \in {"rescanning", "committing"} => \A f \in Files : scan.found[f] \in Int
         /\ handler.data \in Int /\ hook.data \in Int
<1>1. \A v : v \in Contents => v \in Int
  BY DEF Contents
<1>2. \A v : v \in Values \/ v \in Contents \cup {None, Torn} \/ v \in Contents \cup {None, Blank} => v \in Int
  BY <1>1 DEF Values, None, Torn, Blank, Online
<1>3. changes \in Nat
  BY DEF FeedInv, TypeOK
<1>4. \A f \in Files : disk[f] \in Int /\ lastAuthHashes[f] \in Int /\ currentAuths[f] \in Int
  BY <1>2 DEF FeedInv, TypeOK, Ids
<1>5. scan.at \in {"rescanning", "committing"} => \A f \in Files : scan.found[f] \in Int
  BY <1>2 DEF FeedInv, AtWork
<1>6. handler.data \in Contents \cup {None, Torn} /\ hook.data \in Contents \cup {None, Torn}
  BY DEF FeedInv, Places
<1>. QED  BY <1>2, <1>3, <1>4, <1>5, <1>6

-----------------------------------------------------------------------------
\* Every action, one after the other, for a file that can be read.

FilesOf == <<disk, events, lastAuthHashes, currentAuths, runtimeAuths, log, handler, scan, changes>>
Kept == /\ InHand /\ Numbered /\ Believed
        /\ \A f \in Files : WrittenSince(f) /\ (Readable(disk[f]) => Attended(f))

LEMMA ElsewhereMissed ==
  ASSUME Kept, UNCHANGED FilesOf, hook' = hook \/ (hook.at = "applying" /\ hook' = HookIdle), FeedInv
  PROVE  Kept'
<1>. USE DEF FilesOf
<1>1. (hook'.at # "idle" => hook' = hook) /\ hook'.data <= changes /\ changes \in Nat
  BY NumberTypes DEF Kept, Numbered, HookIdle, None
<1>4. Numbered'
  BY <1>1 DEF Kept, Numbered
<1>5. InHand'
  BY <1>1 DEF Kept, InHand, Noticed, Written
<1>2. Believed'
  BY PublishedSame DEF Kept, Believed
<1>3. \A f \in Files : WrittenSince(f)' /\ (Readable(disk[f]) => Attended(f)')
  BY DEF Kept, WrittenSince, Attended, Covered, HashTrue, ScanTrue, Noticed, HandlerWill, Updating, ScanWill,
     HookWill, Done, HookIdle, Written, Removal
<1>. QED  BY <1>2, <1>3, <1>4, <1>5 DEF Kept

\* A file changes outside: what was read before is older than the new content.
LEMMA ChangeMissed ==
  ASSUME FeedInv, Kept, ~Overlap, NEW f \in Files, NEW content \in Contents \cup {None, Torn},
         NEW op \in {"write", "remove"}, Change(f, content, op),
         op = "remove" <=> content = None, Readable(content) => content = changes + 1
  PROVE  Kept'
<1>1. /\ hook.at = "idle" /\ changes' = changes + 1 /\ disk' = [disk EXCEPT ![f] = content]
      /\ events' = Append(events, [file |-> f, op |-> op])
      /\ UNCHANGED <<lastAuthHashes, currentAuths, runtimeAuths, log, handler, scan, hook>>
  BY DEF Change, Counting, stateVars
<1>2. FilesTyped /\ [file |-> f, op |-> op] \in FileEvents /\ disk \in [Files -> Contents \cup {None, Torn}]
  BY TypesSplit DEF FeedInv, FileEvents, FilesTyped
<1>3. \A g \in Files : disk'[g] = IF g = f THEN content ELSE disk[g]
  BY <1>1, <1>2
<1>4. /\ changes \in Nat /\ handler.data \in Int /\ hook.data \in Int
      /\ \A g \in Files : disk[g] \in Int /\ lastAuthHashes[g] \in Int /\ currentAuths[g] \in Int
      /\ scan.at \in {"rescanning", "committing"} => \A g \in Files : scan.found[g] \in Int
  BY NumberTypes
<1>5. Numbered'
  <2>1. content <= changes + 1
    BY <1>4 DEF Readable, None, Torn
  <2>. QED  BY <2>1, <1>1, <1>3, <1>4 DEF Kept, Numbered
<1>6. Believed'
  BY <1>1, PublishedSame DEF Kept, Believed
<1>7. \A g \in Files : /\ Noticed(g) => Noticed(g)'
                       /\ op = "write" => Noticed(f)'
                       /\ WrittenSince(g)'
  <2>1. \A g \in Files : g # f => [file |-> f, op |-> op] # Removal(g)
    BY DEF Removal
  <2>2. op = "write" => [file |-> f, op |-> op] = Written(f)
    BY DEF Written
  <2>3. op # "write" => WrittenSince(f)'
    BY <1>3 DEF WrittenSince
  <2>. QED  BY <1>1, <1>2, <1>3, <2>1, <2>2, <2>3, EventAppended DEF Kept
<1>8. InHand'
  <2>1. handler.at # "idle" => handler.file \in Files
    BY DEF FeedInv, AtWork
  <2>2. Readable(content) => Noticed(f)'
    BY <1>7 DEF Readable
  <2>. QED  BY <1>1, <1>3, <1>7, <2>1, <2>2 DEF Kept, InHand
<1>9. ASSUME NEW g \in Files, Readable(disk'[g])  PROVE Attended(g)'
  <2>1. CASE g = f
    <3>1. disk'[f] = changes + 1 /\ op = "write"
      BY <1>3, <1>9, <2>1 DEF Readable
    <3>2. lastAuthHashes[f] # disk'[f] /\ currentAuths[f] # disk'[f]
      BY <3>1, <1>4 DEF Kept, Numbered
    <3>. QED  BY <3>1, <3>2, <1>1, <1>7, <2>1 DEF Attended, Covered, HashTrue, ScanTrue, Done
  <2>2. CASE g # f
    <3>1. disk'[g] = disk[g] /\ Attended(g)
      BY <1>3, <1>9, <2>2 DEF Kept
    <3>. QED  BY <3>1, <1>1, <1>7 DEF Attended, Covered, HashTrue, ScanTrue, HandlerWill, Updating, ScanWill,
              HookWill, Done
  <2>. QED  BY <2>1, <2>2
<1>. QED  BY <1>5, <1>6, <1>7, <1>8, <1>9 DEF Kept

LEMMA SaveMissed ==
  ASSUME FeedInv, Kept, NEW f \in Files, Save(f)
  PROVE  Kept'
<1>1. /\ hook.at = "idle" /\ changes' = changes + 1 /\ disk' = [disk EXCEPT ![f] = changes + 1]
      /\ events' = Append(events, Written(f))
      /\ hook' = [hook EXCEPT !.at = "saved", !.file = f, !.data = changes + 1]
      /\ UNCHANGED <<lastAuthHashes, currentAuths, runtimeAuths, log, handler, scan>>
  BY DEF Save, Counting, stateVars, Written
<1>2. FilesTyped /\ Written(f) \in FileEvents /\ disk \in [Files -> Contents \cup {None, Torn}]
  BY TypesSplit DEF FeedInv, FileEvents, Written, FilesTyped
<1>3. \A g \in Files : disk'[g] = IF g = f THEN changes + 1 ELSE disk[g]
  BY <1>1, <1>2
<1>4. /\ changes \in Nat /\ handler.data \in Int /\ hook.data \in Int
      /\ \A g \in Files : disk[g] \in Int /\ lastAuthHashes[g] \in Int /\ currentAuths[g] \in Int
      /\ scan.at \in {"rescanning", "committing"} => \A g \in Files : scan.found[g] \in Int
  BY NumberTypes
<1>5. hook'.at = "saved" /\ hook'.file = f /\ hook'.data = changes + 1
  BY <1>1 DEF FeedInv, Places
<1>6. Numbered'
  BY <1>1, <1>3, <1>4, <1>5 DEF Kept, Numbered
<1>7. Believed'
  BY <1>1, PublishedSame DEF Kept, Believed
<1>8. \A g \in Files : /\ Noticed(g) => Noticed(g)'
                       /\ Noticed(f)' /\ WrittenSince(g)'
  <2>1. \A g \in Files : g # f => Written(f) # Removal(g)
    BY DEF Removal, Written
  <2>. QED  BY <1>1, <1>2, <1>3, <2>1, EventAppended DEF Kept
<1>9. InHand'
  <2>1. handler.at # "idle" => handler.file \in Files
    BY DEF FeedInv, AtWork
  <2>. QED  BY <1>1, <1>3, <1>5, <1>8, <2>1 DEF Kept, InHand
<1>10. ASSUME NEW g \in Files, Readable(disk'[g])  PROVE Attended(g)'
  <2>1. CASE g = f
    <3>1. lastAuthHashes[f] # disk'[f] /\ currentAuths[f] # disk'[f]
      BY <1>3, <1>4 DEF Kept, Numbered
    <3>. QED  BY <3>1, <1>1, <1>8, <2>1 DEF Attended, Covered, HashTrue, ScanTrue, Done
  <2>2. CASE g # f
    <3>1. disk'[g] = disk[g] /\ Attended(g)
      BY <1>3, <1>10, <2>2 DEF Kept
    <3>. QED  BY <3>1, <1>1, <1>8 DEF Attended, Covered, HashTrue, ScanTrue, HandlerWill, Updating, ScanWill,
              HookWill, Done
  <2>. QED  BY <2>1, <2>2
<1>. QED  BY <1>6, <1>7, <1>8, <1>9, <1>10 DEF Kept

\* What marking the scan that is under way leaves.
LEMMA StaleEffect ==
  ASSUME Places, NEW I \in SUBSET Ids, ScanStale(I)
  PROVE  /\ scan'.at = scan.at /\ scan'.found = scan.found /\ scan'.force = scan.force
         /\ scan'.stale = IF scan.at \in {"reading", "committing"} THEN scan.stale \cup I ELSE scan.stale
BY DEF Places, ScanStale

LEMMA ObserveEffect ==
  ASSUME FilesTyped, Places, NEW f \in Files, observeAuthFile(f)
  PROVE  /\ scan'.at = scan.at /\ scan'.found = scan.found
         /\ scan'.stale = IF scan.at \in {"reading", "committing"} THEN scan.stale \cup {f} ELSE scan.stale
         /\ \A g \in Files : g # f => lastAuthHashes'[g] = lastAuthHashes[g]
         /\ lastAuthHashes'[f] \in {lastAuthHashes[f], Blank}
         /\ scan.at \in {"reading", "committing"} => lastAuthHashes'[f] \in {None, Blank}
<1>1. ScanStale({f}) /\ {f} \in SUBSET Ids
  BY DEF observeAuthFile, Ids
<1>2. /\ \A g \in Files : g # f => lastAuthHashes'[g] = lastAuthHashes[g]
      /\ lastAuthHashes'[f] \in {lastAuthHashes[f], Blank}
      /\ scan.at \in {"reading", "committing"} => lastAuthHashes'[f] \in {None, Blank}
  BY DEF observeAuthFile, FilesTyped
<1>. QED  BY <1>1, <1>2, StaleEffect

\* What the handler leaves of a file it looks at: either the scan still covers it, or
\* its hash is void.
LEMMA ObserveAttends ==
  ASSUME FilesTyped, Places, Kept, NEW f \in Files, observeAuthFile(f),
         UNCHANGED <<disk, currentAuths, hook>>
  PROVE  /\ \A g \in Files : g # f => (ScanWill(g)' <=> ScanWill(g))
         /\ \A g \in Files : scan.at \notin {"reading", "committing"} => (ScanWill(g)' <=> ScanWill(g))
         /\ \A g \in Files : ScanTrue(g) => ScanTrue(g)'
         /\ \A g \in Files : HashTrue(g) /\ Readable(disk[g]) /\ (g # f \/ ~Updating(f)) /\ (Updating(g) => Updating(g)')
              => HashTrue(g)'
<1>. USE ObserveEffect
<1>1. \A g \in Files : g # f => (ScanWill(g)' <=> ScanWill(g))
  BY ZenonT(30) DEF ScanWill
<1>2. \A g \in Files : scan.at \notin {"reading", "committing"} => (ScanWill(g)' <=> ScanWill(g))
  BY DEF ScanWill
<1>3. \A g \in Files : ScanTrue(g) => ScanTrue(g)'
  BY DEF ScanTrue, Done
<1>4. \A g \in Files : HashTrue(g) /\ Readable(disk[g]) /\ (g # f \/ ~Updating(f)) /\ (Updating(g) => Updating(g)')
        => HashTrue(g)'
  <2>. SUFFICES ASSUME NEW g \in Files, HashTrue(g), Readable(disk[g]), g # f \/ ~Updating(f),
                       Updating(g) => Updating(g)', lastAuthHashes'[g] = disk[g]
                PROVE  Updating(g)' \/ ScanWill(g)' \/ HookWill(g)' \/ Done(g)'
    BY DEF HashTrue
  <2>1. lastAuthHashes'[g] # Blank /\ lastAuthHashes'[g] # None
    BY DEF Readable, Blank, Torn
  <2>2. lastAuthHashes[g] = disk[g] /\ (g = f => scan.at \notin {"reading", "committing"})
    BY <2>1
  <2>3. Updating(g) \/ ScanWill(g) \/ HookWill(g) \/ Done(g)
    BY <2>2 DEF HashTrue
  <2>. QED  BY <2>2, <2>3, <1>1, <1>2 DEF HookWill, Done
<1>. QED  BY <1>1, <1>2, <1>3, <1>4

\* The handler takes an event.
LEMMA EventMissed ==
  ASSUME FeedInv, Kept, HandleEvent
  PROVE  Kept'
<1>. DEFINE e == Head(events)
            f == e.file
<1>1. /\ handler.at = "idle" /\ scan.at # "rescanning" /\ events # <<>> /\ events' = Tail(events)
      /\ observeAuthFile(f)
      /\ UNCHANGED <<disk, currentAuths, runtimeAuths, log, hook, changes>>
      /\ IF e.op = "remove" /\ f \in lastRemove THEN UNCHANGED handler
         ELSE handler' = [handler EXCEPT !.at = IF e.op = "remove" THEN "removed" ELSE "comparing", !.file = f]
  BY Zenon DEF HandleEvent
<1>2. FilesTyped /\ Places
  BY TypesSplit DEF FeedInv
<1>3. e \in FileEvents
  BY <1>1, <1>2, HeadTailProperties DEF FilesTyped, FileEvents
<1>4. f \in Files /\ e.op \in {"write", "remove"} /\ e = [file |-> f, op |-> e.op]
  BY <1>3 DEF FileEvents
<1>5. \A g \in Files : /\ Noticed(g) /\ ~(g = f /\ e.op = "write") => Noticed(g)'
                       /\ WrittenSince(g)'
                       /\ disk[g] # None /\ g = f /\ e.op = "remove" => Noticed(g)'
  <2>1. \A g \in Files : /\ e = Written(g) => g = f /\ e.op = "write"
                         /\ g = f /\ e.op = "remove" => e = Removal(g)
    BY <1>4 DEF Written, Removal
  <2>. QED  BY <1>1, <1>2, <2>1, EventTaken DEF Kept
<1>6. /\ handler'.at \in {"idle", "removed", "comparing"} /\ handler'.data = handler.data
      /\ e.op = "write" => handler'.at = "comparing" /\ handler'.file = f
  BY <1>1, <1>2, <1>4 DEF Places
<1>. HIDE DEF e, f
<1>7. /\ \A g \in Files : g # f => (ScanWill(g)' <=> ScanWill(g))
      /\ \A g \in Files : scan.at \notin {"reading", "committing"} => (ScanWill(g)' <=> ScanWill(g))
      /\ \A g \in Files : ScanTrue(g) => ScanTrue(g)'
      /\ \A g \in Files : HashTrue(g) /\ Readable(disk[g]) => HashTrue(g)'
  <2>1. \A g : ~Updating(g)
    BY <1>1 DEF Updating
  <2>2. /\ \A g \in Files : g # f => (ScanWill(g)' <=> ScanWill(g))
        /\ \A g \in Files : scan.at \notin {"reading", "committing"} => (ScanWill(g)' <=> ScanWill(g))
        /\ \A g \in Files : ScanTrue(g) => ScanTrue(g)'
        /\ \A g \in Files : HashTrue(g) /\ Readable(disk[g]) /\ (g # f \/ ~Updating(f))
                            /\ (Updating(g) => Updating(g)') => HashTrue(g)'
    BY <1>1, <1>2, <1>4, ObserveAttends
  <2>. QED  BY <2>1, <2>2
<1>8. Numbered'
  <2>2. changes \in Nat /\ \A g \in Files : lastAuthHashes[g] <= changes
    BY NumberTypes DEF Kept, Numbered
  <2>1. \A g \in Files : lastAuthHashes'[g] <= changes
    <3>1. \A g \in Files : lastAuthHashes'[g] \in {lastAuthHashes[g], Blank}
      BY <1>1, <1>2, <1>4, ObserveEffect
    <3>. QED  BY <2>2, <3>1 DEF Blank
  <2>. QED  BY <2>1, <1>1, <1>2, <1>4, <1>6, ObserveEffect DEF Kept, Numbered
<1>9. Believed'
  BY <1>1, PublishedSame DEF Kept, Believed
<1>10. InHand'
  BY <1>1, <1>2, <1>4, <1>6, ObserveEffect DEF Kept, InHand
<1>11. ASSUME NEW g \in Files, Readable(disk[g])  PROVE Attended(g)'
  <2>1. Attended(g) /\ disk[g] # None
    BY <1>11 DEF Kept, Readable
  <2>2. HashTrue(g)' /\ ScanTrue(g)'
    BY <2>1, <1>7, <1>11 DEF Attended
  <2>3. CASE g = f /\ e.op = "write"
    <3>1. CASE lastAuthHashes'[g] # disk[g]
      BY <3>1, <2>2, <2>3, <1>1, <1>6 DEF Attended, Covered, HandlerWill
    <3>2. CASE lastAuthHashes'[g] = disk[g]
      BY <3>2, <2>2, <1>1 DEF Attended, Covered, HashTrue, HandlerWill
    <3>. QED  BY <3>1, <3>2
  <2>4. CASE g = f /\ e.op = "remove"
    BY <2>1, <2>2, <2>4, <1>5 DEF Attended, Covered
  <2>5. CASE g # f
    <3>1. Noticed(g) \/ ScanWill(g) \/ HookWill(g) \/ Done(g)
      BY <2>1, <1>1 DEF Attended, Covered, HandlerWill, Updating
    <3>2. Noticed(g)' \/ ScanWill(g)' \/ HookWill(g)' \/ Done(g)'
      BY <3>1, <2>5, <1>1, <1>5, <1>7 DEF HookWill, Done
    <3>. QED  BY <3>2, <2>2 DEF Attended, Covered
  <2>. QED  BY <2>3, <2>4, <2>5, <1>4
<1>. QED  BY <1>1, <1>5, <1>8, <1>9, <1>10, <1>11 DEF Kept

\* The handler looks at its file.
LEMMA LookMissed ==
  ASSUME FeedInv, Kept, CheckRemoved \/ Compare
  PROVE  Kept'
<1>. DEFINE f == handler.file
<1>1. /\ handler.at \in {"removed", "comparing"} /\ handler'.data \in {handler.data, None}
      /\ UNCHANGED <<disk, events, currentAuths, runtimeAuths, log, hook, changes>>
      /\ \/ handler' = HandlerIdle
         \/ handler'.file = f /\ handler'.at \in {"comparing", "removing", "reading"}
      /\ \/ observeAuthFile(f) /\ handler'.at # "comparing" /\ (handler.at = "comparing" => handler'.at = "reading")
         \/ /\ UNCHANGED <<scan, lastAuthHashes>> /\ handler'.at \in {"idle", "comparing"}
            /\ handler.at = "comparing" => ~Readable(disk[f]) \/ lastAuthHashes[f] = disk[f]
      /\ handler.at = "removed" /\ handler'.at # "comparing" => disk[f] = None
  BY DEF FeedInv, Places, CheckRemoved, Compare, Step, HandlerIdle, fileVars
<1>2. FilesTyped /\ Places /\ f \in Files
  BY <1>1, TypesSplit DEF FeedInv, AtWork
<1>. HIDE DEF f
<1>3. \A g : ~Updating(g) /\ ~Updating(g)'
  BY <1>1 DEF Updating, HandlerIdle
<1>4. Numbered'
  <2>4. changes \in Nat /\ \A g \in Files : lastAuthHashes[g] <= changes
    BY NumberTypes DEF Kept, Numbered
  <2>1. \A g \in Files : lastAuthHashes'[g] <= changes
    <3>1. \A g \in Files : lastAuthHashes'[g] \in {lastAuthHashes[g], Blank}
      BY <1>1, <1>2, ObserveEffect
    <3>. QED  BY <2>4, <3>1 DEF Blank
  <2>2. scan'.at = scan.at /\ scan'.found = scan.found /\ changes \in Nat
    BY <1>1, <1>2, ObserveEffect, NumberTypes
  <2>3. handler'.data <= changes
    BY <1>1, <2>2 DEF Kept, Numbered, None
  <2>. QED  BY <2>1, <2>2, <2>3, <1>1 DEF Kept, Numbered
<1>5. Believed'
  BY <1>1, PublishedSame DEF Kept, Believed
<1>6. InHand'
  <2>1. handler'.at # "updating"
    BY <1>1 DEF HandlerIdle
  <2>2. handler'.at = "removing" => handler'.file = f /\ disk[f] = None
    BY <1>1 DEF HandlerIdle
  <2>3. /\ scan'.at \in {"idle", "rescan", "rescanning", "begin"} => scan'.stale = {}
        /\ scan'.at # "rescanning"
    BY <1>1, <1>2, ObserveEffect DEF Kept, InHand
  <2>. QED  BY <2>1, <2>2, <2>3, <1>1 DEF Kept, InHand, Readable
<1>7. \A g \in Files : (Noticed(g)' <=> Noticed(g)) /\ WrittenSince(g)'
  BY <1>1 DEF Kept, Noticed, WrittenSince, Written, Removal
<1>8. ASSUME NEW g \in Files, Readable(disk[g])  PROVE Attended(g)'
  <2>1. Attended(g) /\ disk[g] # None /\ disk[g] # Blank
    BY <1>8 DEF Kept, Readable, Blank, Torn
  <2>2. CASE /\ observeAuthFile(f) /\ handler'.at # "comparing"
             /\ handler.at = "comparing" => handler'.at = "reading"
    <3>1. HashTrue(g)' /\ ScanTrue(g)'
      BY <2>1, <2>2, <1>1, <1>2, <1>3, <1>8, ObserveAttends DEF Attended
    <3>2. CASE g # f
      <4>1. Noticed(g) \/ ScanWill(g) \/ HookWill(g) \/ Done(g)
        BY <2>1, <3>2, <1>3 DEF Attended, Covered, HandlerWill, f
      <4>2. ScanWill(g)' <=> ScanWill(g)
        BY <2>2, <3>2, <1>1, <1>2, ObserveAttends
      <4>. QED  BY <3>1, <4>1, <4>2, <1>1, <1>7 DEF Attended, Covered, HookWill, Done
    <3>3. CASE g = f
      <4>1. handler'.at = "reading" /\ handler'.file = f
        <5>1. handler'.at = "reading"
          BY <2>1, <2>2, <3>3, <1>1 DEF HandlerIdle
        <5>2. handler' # HandlerIdle
          BY <5>1 DEF HandlerIdle
        <5>. QED  BY <5>1, <5>2, <1>1
      <4>2. CASE lastAuthHashes'[g] # disk[g]
        BY <4>1, <4>2, <3>1, <3>3, <1>1 DEF Attended, Covered, HandlerWill
      <4>3. CASE lastAuthHashes'[g] = disk[g]
        BY <4>3, <3>1, <1>1, <1>3 DEF Attended, Covered, HashTrue
      <4>. QED  BY <4>2, <4>3
    <3>. QED  BY <3>2, <3>3
  <2>3. CASE ~(/\ observeAuthFile(f) /\ handler'.at # "comparing"
               /\ handler.at = "comparing" => handler'.at = "reading")
    <3>. USE <2>3
    <3>1. /\ ScanWill(g)' <=> ScanWill(g)
          /\ HookWill(g)' <=> HookWill(g)
          /\ Done(g)' <=> Done(g)
      BY <2>3, <1>1 DEF ScanWill, HookWill, Done
    <3>2. HashTrue(g)' /\ ScanTrue(g)'
      BY <2>1, <2>3, <3>1, <1>1, <1>3 DEF Attended, HashTrue, ScanTrue
    <3>3. ~HandlerWill(g) \/ handler.at = "removed"
      BY <1>1, <1>3, <1>8 DEF HandlerWill, f
    <3>4. ~HandlerWill(g)
      BY <3>3, <1>3 DEF HandlerWill
    <3>. QED  BY <2>1, <3>1, <3>2, <3>4, <1>7 DEF Attended, Covered
  <2>. QED  BY <2>2, <2>3
<1>. QED  BY <1>1, <1>4, <1>5, <1>6, <1>7, <1>8 DEF Kept

\* The handler reads its file: it has the newest content in hand, or has nothing to do.
LEMMA ReadMissed ==
  ASSUME FeedInv, Kept, ReadClient
  PROVE  Kept'
<1>. DEFINE f == handler.file
<1>1. /\ handler.at = "reading"
      /\ UNCHANGED <<disk, events, currentAuths, runtimeAuths, log, hook, changes, scan>>
      /\ \/ /\ handler'.at = "updating" /\ handler'.file = f /\ handler'.data = disk[f]
            /\ lastAuthHashes' = [lastAuthHashes EXCEPT ![f] = disk[f]]
         \/ /\ handler'.at = "idle" /\ handler'.data = None /\ UNCHANGED lastAuthHashes
            /\ ~Readable(disk[f]) \/ lastAuthHashes[f] = disk[f]
  <2>1. handler \in [at : {"idle", "removed", "comparing", "reading", "updating", "removing"},
                      file : Files \cup {None}, data : Contents \cup {None}]
    BY DEF FeedInv, Places
  <2>2. CASE Readable(disk[f]) /\ lastAuthHashes[f] # disk[f]
    BY <2>1, <2>2 DEF ReadClient, fileVars
  <2>3. CASE ~(Readable(disk[f]) /\ lastAuthHashes[f] # disk[f])
    BY <2>3 DEF ReadClient, HandlerIdle, fileVars
  <2>. QED  BY <2>2, <2>3
<1>2. FilesTyped /\ Places /\ f \in Files
  BY <1>1, TypesSplit DEF FeedInv, AtWork
<1>3. \A g \in Files : g # f => lastAuthHashes'[g] = lastAuthHashes[g]
  BY <1>1, <1>2 DEF FilesTyped
<1>4. handler'.at = "updating" => lastAuthHashes'[f] = disk[f]
  BY <1>1, <1>2 DEF FilesTyped
<1>. HIDE DEF f
<1>5. Numbered'
  BY <1>1, <1>2, <1>3, <1>4, NumberTypes DEF Kept, Numbered, None
<1>6. Believed'
  BY <1>1, PublishedSame DEF Kept, Believed
<1>7. InHand'
  BY <1>1, <1>4 DEF Kept, InHand
<1>8. \A g \in Files : /\ Noticed(g)' <=> Noticed(g)
                       /\ WrittenSince(g)'
                       /\ ScanWill(g)' <=> ScanWill(g)
                       /\ HookWill(g)' <=> HookWill(g)
                       /\ Done(g)' <=> Done(g)
                       /\ ScanTrue(g)' <=> ScanTrue(g)
  BY <1>1 DEF Kept, Noticed, WrittenSince, Written, Removal, ScanWill, HookWill, Done, ScanTrue
<1>9. ASSUME NEW g \in Files, Readable(disk[g])  PROVE Attended(g)'
  <2>1. Attended(g) /\ ~Updating(g)
    BY <1>9, <1>1 DEF Kept, Updating
  <2>2. CASE g = f /\ handler'.at = "updating"
    <3>1. Updating(g)'
      BY <2>2, <1>1 DEF Updating
    <3>. QED  BY <3>1, <2>1, <1>8 DEF Attended, Covered, HandlerWill, HashTrue
  <2>3. CASE ~(g = f /\ handler'.at = "updating")
    <3>1. lastAuthHashes'[g] = lastAuthHashes[g]
      BY <2>3, <1>1, <1>3
    <3>2. HandlerWill(g) => lastAuthHashes[g] = disk[g]
      BY <2>1, <2>3, <1>1, <1>9 DEF HandlerWill, f
    <3>. QED  BY <2>1, <3>1, <3>2, <1>1, <1>8 DEF Attended, Covered, HashTrue
  <2>. QED  BY <2>2, <2>3
<1>. QED  BY <1>1, <1>5, <1>6, <1>7, <1>8, <1>9 DEF Kept

\* Publishing: what the watcher believes is in the log.
LEMMA BelievedStamped ==
  ASSUME FeedInv, Kept, NEW p, NEW I \in SUBSET Ids, NEW value, \A i \in I : value[i] \in Values,
         stampAuthUpdatesLocked(p, I, value),
         \A f \in Files : \/ currentAuths'[f] = None
                          \/ f \in I /\ currentAuths'[f] = value[f]
                          \/ f \notin I /\ currentAuths'[f] = currentAuths[f],
         \A r \in Runtime : /\ currentAuths'[r] = runtimeAuths'[r]
                            /\ IF r \in I THEN currentAuths'[r] = value[r] ELSE currentAuths'[r] = currentAuths[r]
  PROVE  Believed'
<1>1. \A i \in Ids : Published(i)' = IF i \in I THEN value[i] ELSE Published(i)
  BY TypesSplit, PublishedStamped DEF FeedInv
<1>. QED  BY <1>1 DEF Kept, Believed, Ids

\* The handler publishes the content it has read: the file is served, unless it has
\* been written again.
LEMMA UpdateMissed ==
  ASSUME FeedInv, Kept, IdAssumption, UpdateClient
  PROVE  Kept'
<1>. DEFINE f == handler.file
            changed == IF currentAuths[f] # handler.data THEN {f} ELSE {}
<1>1. /\ handler.at = "updating" /\ handler' = HandlerIdle /\ ScanStale(changed)
      /\ currentAuths' = [currentAuths EXCEPT ![f] = handler.data]
      /\ stampAuthUpdatesLocked("handler", changed, [i \in changed |-> handler.data])
      /\ UNCHANGED <<disk, events, lastAuthHashes, runtimeAuths, hook, changes>>
  BY DEF UpdateClient, fileVars
<1>2. FilesTyped /\ Places /\ f \in Files /\ handler.data \in Contents /\ handler.data \in Values
  BY <1>1, TypesSplit DEF FeedInv, AtWork, Values
<1>3. changed \in SUBSET Ids
  BY <1>2 DEF Ids
<1>4. /\ \A g \in Files : currentAuths'[g] = IF g = f THEN handler.data ELSE currentAuths[g]
      /\ \A r \in Runtime : currentAuths'[r] = currentAuths[r]
  BY <1>1, <1>2 DEF FilesTyped, Ids, IdAssumption
<1>5. changed \subseteq {f} /\ (f \notin changed => currentAuths[f] = handler.data)
  OBVIOUS
<1>6. handler'.at = "idle" /\ handler'.data = None
  BY <1>1 DEF HandlerIdle
<1>7. /\ scan'.at = scan.at /\ scan'.found = scan.found
      /\ scan'.stale = IF scan.at \in {"reading", "committing"} THEN scan.stale \cup changed ELSE scan.stale
  BY <1>1, <1>2, <1>3, StaleEffect
<1>8. \A i \in changed : [j \in changed |-> handler.data][i] \in Values /\ [j \in changed |-> handler.data][i] = handler.data
  BY <1>2
<1>9. Believed'
  <2>1. \A g \in Files : \/ g \in changed /\ currentAuths'[g] = [j \in changed |-> handler.data][g]
                         \/ g \notin changed /\ currentAuths'[g] = currentAuths[g]
    BY <1>4, <1>5, <1>8
  <2>2. \A r \in Runtime : r \notin changed /\ currentAuths'[r] = currentAuths[r] /\ currentAuths[r] = runtimeAuths'[r]
    BY <1>1, <1>2, <1>4, <1>5 DEF Kept, Believed, IdAssumption
  <2>. HIDE DEF changed, f
  <2>. QED  BY <2>1, <2>2, <1>1, <1>3, <1>8, BelievedStamped
<1>. HIDE DEF changed, f
<1>10. Numbered'
  <2>1. handler.data <= changes /\ changes \in Nat
    BY NumberTypes DEF Kept, Numbered
  <2>. QED  BY <2>1, <1>1, <1>4, <1>6, <1>7 DEF Kept, Numbered, None
<1>11. InHand'
  BY <1>1, <1>6, <1>7 DEF Kept, InHand
<1>12. \A g \in Files : /\ Noticed(g)' <=> Noticed(g)
                        /\ WrittenSince(g)'
                        /\ HookWill(g)' <=> HookWill(g)
  BY <1>1 DEF Kept, Noticed, WrittenSince, Written, Removal, HookWill
<1>13. ASSUME NEW g \in Files, Readable(disk[g])  PROVE Attended(g)'
  <2>1. Attended(g)
    BY <1>13 DEF Kept
  <2>2. CASE g # f
    <3>1. /\ ScanWill(g)' <=> ScanWill(g)
          /\ Done(g)' <=> Done(g)
          /\ ScanTrue(g)' <=> ScanTrue(g)
          /\ ~HandlerWill(g) /\ ~Updating(g)
      BY <2>2, <1>1, <1>4, <1>5, <1>7 DEF ScanWill, Done, ScanTrue, HandlerWill, Updating, f
    <3>. QED  BY <2>1, <3>1, <1>1, <1>12 DEF Attended, Covered, HashTrue
  <2>3. CASE g = f /\ handler.data = disk[f]
    <3>1. Done(g)'
      BY <2>3, <1>1, <1>4 DEF Done
    <3>2. ScanTrue(g)'
      <4>1. CASE g \in changed
        BY <4>1, <1>7 DEF ScanTrue
      <4>2. CASE g \notin changed
        BY <4>2, <2>1, <2>3, <1>1, <1>5, <1>7 DEF Attended, ScanTrue, Done
      <4>. QED  BY <4>1, <4>2
    <3>. QED  BY <3>1, <3>2 DEF Attended, Covered, HashTrue
  <2>4. CASE g = f /\ handler.data # disk[f]
    <3>1. Noticed(g)
      BY <2>4, <1>1, <1>13 DEF Kept, InHand, f
    <3>2. lastAuthHashes'[g] # disk'[g]
      BY <2>4, <1>1 DEF Kept, InHand, f
    <3>3. ~Done(g)'
      BY <2>4, <1>1, <1>4 DEF Done
    <3>. QED  BY <3>1, <3>2, <3>3, <1>12 DEF Attended, Covered, HashTrue, ScanTrue
  <2>. QED  BY <2>2, <2>3, <2>4
<1>. QED  BY <1>1, <1>9, <1>10, <1>11, <1>12, <1>13 DEF Kept

\* The handler publishes that a file is gone.
LEMMA RemoveMissed ==
  ASSUME FeedInv, Kept, IdAssumption, RemoveClient
  PROVE  Kept'
<1>. DEFINE f == handler.file
            gone == {f} \cap fileAuthsByPath
<1>1. /\ handler.at = "removing" /\ handler' = HandlerIdle /\ ScanStale(gone)
      /\ currentAuths' = [i \in Ids |-> IF i \in gone THEN None ELSE currentAuths[i]]
      /\ lastAuthHashes' = [lastAuthHashes EXCEPT ![f] = None]
      /\ stampAuthUpdatesLocked("handler", gone, [i \in gone |-> None])
      /\ UNCHANGED <<disk, events, runtimeAuths, hook, changes>>
  BY DEF RemoveClient, fileVars
<1>2. FilesTyped /\ Places /\ f \in Files /\ None \in Values
  BY <1>1, TypesSplit DEF FeedInv, AtWork, Values
<1>3. gone \in SUBSET Ids /\ gone \subseteq {f}
  BY <1>2 DEF Ids
<1>4. /\ \A g \in Files : currentAuths'[g] = IF g \in gone THEN None ELSE currentAuths[g]
      /\ \A r \in Runtime : currentAuths'[r] = currentAuths[r] /\ r \notin gone
      /\ \A g \in Files : lastAuthHashes'[g] = IF g = f THEN None ELSE lastAuthHashes[g]
  BY <1>1, <1>2, <1>3 DEF FilesTyped, Ids, IdAssumption
<1>5. handler'.at = "idle" /\ handler'.data = None
  BY <1>1 DEF HandlerIdle
<1>. HIDE DEF gone
<1>6. /\ scan'.at = scan.at /\ scan'.found = scan.found
      /\ scan'.stale = IF scan.at \in {"reading", "committing"} THEN scan.stale \cup gone ELSE scan.stale
  BY <1>1, <1>2, <1>3, StaleEffect
<1>7. Believed'
  <2>1. \A i \in gone : [j \in gone |-> None][i] \in Values
    BY <1>2
  <2>2. \A g \in Files : \/ currentAuths'[g] = None
                         \/ g \notin gone /\ currentAuths'[g] = currentAuths[g]
    BY <1>4
  <2>3. \A r \in Runtime : r \notin gone /\ currentAuths'[r] = currentAuths[r] /\ currentAuths[r] = runtimeAuths'[r]
    BY <1>1, <1>4 DEF Kept, Believed
  <2>. QED  BY <2>1, <2>2, <2>3, <1>1, <1>3, BelievedStamped
<1>. HIDE DEF f
<1>8. Numbered'
  <2>1. changes \in Nat
    BY NumberTypes
  <2>. QED  BY <2>1, <1>1, <1>4, <1>5, <1>6 DEF Kept, Numbered, None
<1>9. InHand'
  BY <1>1, <1>5, <1>6 DEF Kept, InHand
<1>10. \A g \in Files : /\ Noticed(g)' <=> Noticed(g)
                        /\ WrittenSince(g)'
                        /\ HookWill(g)' <=> HookWill(g)
  BY <1>1 DEF Kept, Noticed, WrittenSince, Written, Removal, HookWill
<1>11. ASSUME NEW g \in Files, Readable(disk[g])  PROVE Attended(g)'
  <2>1. Attended(g) /\ ~HandlerWill(g) /\ ~Updating(g)
    BY <1>11, <1>1 DEF Kept, HandlerWill, Updating
  <2>2. CASE g # f
    <3>1. /\ ScanWill(g)' <=> ScanWill(g)
          /\ Done(g)' <=> Done(g)
          /\ ScanTrue(g)' <=> ScanTrue(g)
      BY <2>2, <1>1, <1>3, <1>4, <1>6 DEF ScanWill, Done, ScanTrue
    <3>. QED  BY <2>1, <2>2, <3>1, <1>1, <1>4, <1>10 DEF Attended, Covered, HashTrue
  <2>3. CASE g = f
    <3>1. Noticed(g)
      BY <2>3, <1>1, <1>11 DEF Kept, InHand, f
    <3>2. lastAuthHashes'[g] # disk'[g]
      BY <2>3, <1>1, <1>4, <1>11 DEF Readable
    <3>3. ScanTrue(g)'
      <4>1. CASE g \in gone
        BY <4>1, <1>6 DEF ScanTrue
      <4>2. CASE g \notin gone
        BY <4>2, <2>1, <2>3, <1>1, <1>3, <1>4, <1>6 DEF Attended, ScanTrue, Done
      <4>. QED  BY <4>1, <4>2
    <3>. QED  BY <3>1, <3>2, <3>3, <1>10 DEF Attended, Covered, HashTrue
  <2>. QED  BY <2>2, <2>3
<1>. QED  BY <1>1, <1>7, <1>8, <1>9, <1>10, <1>11 DEF Kept

\* The scan reads, and is going to publish what it finds.
LEMMA ScanMissed ==
  ASSUME FeedInv, Kept, RescanRead \/ RescanCommit \/ ScanBegin \/ ScanRead
  PROVE  Kept'
<1>1. /\ UNCHANGED <<disk, events, currentAuths, runtimeAuths, log, handler, hook, changes>>
      /\ \/ scan.at = "rescan" /\ scan' = [scan EXCEPT !.at = "rescanning", !.found = disk]
            /\ UNCHANGED lastAuthHashes /\ handler.at = "idle"
         \/ /\ scan.at = "rescanning" /\ scan' = [scan EXCEPT !.at = "begin", !.found = <<>>]
            /\ lastAuthHashes' = [g \in Files |-> IF Readable(scan.found[g]) THEN scan.found[g] ELSE None]
         \/ scan.at = "begin" /\ scan' = [scan EXCEPT !.at = "reading"] /\ UNCHANGED lastAuthHashes
         \/ scan.at = "reading" /\ scan' = [scan EXCEPT !.at = "committing", !.found = disk]
            /\ UNCHANGED lastAuthHashes
  BY DEF RescanRead, RescanCommit, ScanBegin, ScanRead, fileVars, stateVars
<1>2. /\ scan.at = "rescan" => scan'.at = "rescanning" /\ scan'.found = disk /\ handler.at = "idle"
      /\ scan.at = "rescanning" => scan'.at = "begin"
      /\ scan.at = "begin" => scan'.at = "reading"
      /\ scan.at = "reading" => scan'.at = "committing" /\ scan'.found = disk
      /\ scan.at \in {"rescan", "rescanning", "begin", "reading"} /\ scan'.stale = scan.stale
      /\ scan.at # "rescanning" => lastAuthHashes' = lastAuthHashes
  BY <1>1 DEF FeedInv, Places
<1>3. Believed'
  BY <1>1, PublishedSame DEF Kept, Believed
<1>4. Numbered'
  <2>1. /\ changes \in Nat /\ \A g \in Files : /\ lastAuthHashes[g] <= changes /\ disk[g] <= changes
                                               /\ scan.at = "rescanning" => scan.found[g] <= changes
    BY NumberTypes DEF Kept, Numbered
  <2>2. \A g \in Files : lastAuthHashes'[g] <= changes
    BY <2>1, <1>1, <1>2 DEF None
  <2>. QED  BY <2>1, <2>2, <1>1, <1>2 DEF Kept, Numbered
<1>5. InHand'
  <2>1. scan.at # "rescanning" => UNCHANGED lastAuthHashes
    BY <1>1
  <2>2. scan.at = "rescanning" => handler.at = "idle"
    BY DEF Kept, InHand
  <2>. QED  BY <2>1, <2>2, <1>1, <1>2 DEF Kept, InHand, Noticed, Written
<1>6. ASSUME NEW g \in Files  PROVE WrittenSince(g)' /\ (Readable(disk[g]) => Attended(g)')
  <2>1. /\ WrittenSince(g)'
        /\ Noticed(g)' <=> Noticed(g)
        /\ HookWill(g)' <=> HookWill(g)
        /\ Done(g)' <=> Done(g)
        /\ Updating(g)' <=> Updating(g)
    BY <1>1 DEF Kept, Noticed, WrittenSince, Written, Removal, HookWill, Done, Updating
  <2>2. ScanWill(g) => ScanWill(g)'
    BY <1>1, <1>2 DEF ScanWill, Kept, InHand
  <2>3. scan.at = "rescanning" => ScanWill(g)'
    BY <1>2 DEF ScanWill
  <2>4. ScanTrue(g)'
    BY <1>1, <1>2 DEF ScanTrue
  <2>5. scan.at # "rescanning" => (HandlerWill(g) => HandlerWill(g)')
    BY <2>1, <1>1, <1>2 DEF HandlerWill
  <2>. QED  BY <2>1, <2>2, <2>3, <2>4, <2>5, <1>1, <1>2, <1>6 DEF Kept, Attended, Covered, HashTrue
<1>. QED  BY <1>1, <1>3, <1>4, <1>5, <1>6 DEF Kept

LEMMA ReloadMissed ==
  ASSUME FeedInv, Kept, IdAssumption, NEW affected \in SUBSET Files, NEW force \in BOOLEAN, Reload(affected, force)
  PROVE  Kept'
<1>1. /\ scan.at = "idle" /\ scan' = [scan EXCEPT !.at = "begin", !.force = force]
      /\ currentAuths' = [i \in Ids |-> IF i \in affected THEN None ELSE currentAuths[i]]
      /\ UNCHANGED <<disk, events, lastAuthHashes, runtimeAuths, log, handler, hook, changes>>
  BY DEF Reload, fileVars
<1>2. scan'.at = "begin" /\ scan'.stale = scan.stale /\ scan.stale = {}
  BY <1>1 DEF FeedInv, Places, Kept, InHand
<1>3. /\ \A g \in Files : currentAuths'[g] = IF g \in affected THEN None ELSE currentAuths[g]
      /\ \A r \in Runtime : currentAuths'[r] = currentAuths[r]
  BY <1>1 DEF Ids, IdAssumption
<1>4. Believed'
  BY <1>1, <1>3, PublishedSame DEF Kept, Believed
<1>5. Numbered'
  BY <1>1, <1>2, <1>3, NumberTypes DEF Kept, Numbered, None
<1>6. InHand'
  BY <1>1, <1>2 DEF Kept, InHand, Noticed, Written
<1>7. ASSUME NEW g \in Files  PROVE WrittenSince(g)' /\ (Readable(disk[g]) => Attended(g)')
  <2>1. WrittenSince(g)' /\ ScanWill(g)' /\ ScanTrue(g)'
    BY <1>1, <1>2 DEF Kept, WrittenSince, Written, Removal, ScanWill, ScanTrue
  <2>. QED  BY <2>1 DEF Attended, Covered, HashTrue
<1>. QED  BY <1>1, <1>4, <1>5, <1>6, <1>7 DEF Kept

\* The scan publishes what it has found, where nothing has changed meanwhile.
LEMMA CommitMissed ==
  ASSUME FeedInv, Kept, IdAssumption, prepareAuthUpdatesLocked
  PROVE  Kept'
<1>. DEFINE I == {i \in Ids : newState[i] # currentAuths[i] \/ (scan.force /\ newState[i] # None)}
<1>1. /\ scan.at = "committing" /\ stampAuthUpdatesLocked("scan", I, newState)
      /\ currentAuths' = newState /\ scan' = ScanIdle
      /\ UNCHANGED <<disk, events, lastAuthHashes, runtimeAuths, handler, hook, changes>>
  BY Zenon DEF prepareAuthUpdatesLocked, fileVars
<1>2. /\ \A g \in Files : newState[g] = IF g \in scan.stale THEN currentAuths[g]
                                        ELSE IF Readable(scan.found[g]) THEN scan.found[g] ELSE None
      /\ \A r \in Runtime : newState[r] = runtimeAuths[r]
  BY DEF newState, Ids, IdAssumption, changedDuringScan
<1>3. \A i \in Ids : i \notin I => newState[i] = currentAuths[i]
  OBVIOUS
<1>4. \A i \in Ids : newState[i] \in Values
  <2>1. \A g \in Files : scan.found[g] \in Contents \cup {None, Torn} /\ currentAuths[g] \in Values
    BY <1>1 DEF FeedInv, AtWork, TypeOK, Ids
  <2>2. \A r \in Runtime : runtimeAuths[r] \in Values
    BY DEF FeedInv, TypeOK
  <2>. QED  BY <2>1, <2>2, <1>2 DEF Ids, Values, Readable
<1>5. I \in SUBSET Ids
  OBVIOUS
<1>. HIDE DEF I
<1>6. Believed'
  <2>1. \A g \in Files : \/ g \in I /\ currentAuths'[g] = newState[g]
                         \/ g \notin I /\ currentAuths'[g] = currentAuths[g]
    BY <1>1, <1>3 DEF Ids
  <2>2. \A r \in Runtime : /\ currentAuths'[r] = runtimeAuths'[r]
                           /\ IF r \in I THEN currentAuths'[r] = newState[r] ELSE currentAuths'[r] = currentAuths[r]
    BY <1>1, <1>2, <1>3 DEF Ids
  <2>3. \A i \in I : newState[i] \in Values
    BY <1>4, <1>5
  <2>. QED  BY <2>1, <2>2, <2>3, <1>1, <1>5, BelievedStamped
<1>7. scan'.at = "idle" /\ scan'.stale = {}
  BY <1>1 DEF ScanIdle
<1>8. Numbered'
  <2>1. changes \in Nat /\ \A g \in Files : currentAuths[g] <= changes /\ scan.found[g] <= changes
    BY <1>1, NumberTypes DEF Kept, Numbered
  <2>2. \A g \in Files : currentAuths'[g] <= changes
    BY <2>1, <1>1, <1>2 DEF None
  <2>. QED  BY <2>2, <1>1, <1>7 DEF Kept, Numbered
<1>9. InHand'
  BY <1>1, <1>7 DEF Kept, InHand, Noticed, Written
<1>10. ASSUME NEW g \in Files  PROVE WrittenSince(g)' /\ (Readable(disk[g]) => Attended(g)')
  <2>1. /\ WrittenSince(g)'
        /\ Noticed(g)' <=> Noticed(g)
        /\ HookWill(g)' <=> HookWill(g)
        /\ HandlerWill(g)' <=> HandlerWill(g)
        /\ Updating(g)' <=> Updating(g)
        /\ ScanTrue(g)'
    BY <1>1, <1>7 DEF Kept, Noticed, WrittenSince, Written, Removal, HookWill, HandlerWill, Updating, ScanTrue
  <2>2. ASSUME Readable(disk[g]), Attended(g), Done(g) \/ ScanWill(g)  PROVE Done(g)'
    <3>1. g \in scan.stale => Done(g)
      BY <2>2, <1>1 DEF ScanWill
    <3>2. g \notin scan.stale => scan.found[g] = disk[g]
      BY <2>2, <1>1 DEF ScanWill, Attended, ScanTrue
    <3>. QED  BY <3>1, <3>2, <2>2, <1>1, <1>2 DEF Done
  <2>. QED  BY <2>1, <2>2, <1>1, <1>10 DEF Kept, Attended, Covered, HashTrue
<1>. QED  BY <1>1, <1>6, <1>8, <1>9, <1>10 DEF Kept

\* The hook publishes what it has saved.
LEMMA HookMissed ==
  ASSUME FeedInv, Kept, IdAssumption, dispatchPersistedAuthUpdate
  PROVE  Kept'
<1>. DEFINE f == hook.file
<1>1. /\ hook.at = "saved" /\ ScanStale({f})
      /\ currentAuths' = [currentAuths EXCEPT ![f] = hook.data]
      /\ stampAuthUpdatesLocked("hook", {f}, [i \in {f} |-> hook.data])
      /\ hook' = [hook EXCEPT !.at = "applying", !.rev = Revision(f) + 1]
      /\ UNCHANGED <<disk, events, lastAuthHashes, runtimeAuths, handler, changes>>
  BY DEF dispatchPersistedAuthUpdate, fileVars
<1>2. FilesTyped /\ Places /\ f \in Files /\ hook.data \in Contents /\ hook.data \in Values
  BY <1>1, TypesSplit DEF FeedInv, AtWork, Values
<1>3. {f} \in SUBSET Ids /\ hook.data = disk[f]
  BY <1>1, <1>2 DEF Ids, Kept, InHand
<1>4. /\ \A g \in Files : currentAuths'[g] = IF g = f THEN hook.data ELSE currentAuths[g]
      /\ \A r \in Runtime : currentAuths'[r] = currentAuths[r] /\ r # f
  BY <1>1, <1>2 DEF FilesTyped, Ids, IdAssumption
<1>5. hook'.at = "applying" /\ hook'.file = f /\ hook'.data = hook.data
  BY <1>1, <1>2 DEF Places
<1>6. /\ scan'.at = scan.at /\ scan'.found = scan.found
      /\ scan'.stale = IF scan.at \in {"reading", "committing"} THEN scan.stale \cup {f} ELSE scan.stale
  BY <1>1, <1>2, <1>3, StaleEffect
<1>. HIDE DEF f
<1>7. Believed'
  <2>1. \A i \in {f} : [j \in {f} |-> hook.data][i] \in Values /\ [j \in {f} |-> hook.data][i] = hook.data
    BY <1>2
  <2>2. \A g \in Files : \/ g \in {f} /\ currentAuths'[g] = [j \in {f} |-> hook.data][g]
                         \/ g \notin {f} /\ currentAuths'[g] = currentAuths[g]
    BY <1>4
  <2>3. \A r \in Runtime : r \notin {f} /\ currentAuths'[r] = currentAuths[r] /\ currentAuths[r] = runtimeAuths'[r]
    BY <1>1, <1>4 DEF Kept, Believed
  <2>. QED  BY <2>1, <2>2, <2>3, <1>1, <1>3, BelievedStamped
<1>8. Numbered'
  BY <1>1, <1>4, <1>5, <1>6, NumberTypes DEF Kept, Numbered
<1>9. InHand'
  BY <1>1, <1>3, <1>5, <1>6 DEF Kept, InHand, Noticed, Written
<1>10. ASSUME NEW g \in Files  PROVE WrittenSince(g)' /\ (Readable(disk[g]) => Attended(g)')
  <2>1. /\ WrittenSince(g)'
        /\ Noticed(g)' <=> Noticed(g)
        /\ HandlerWill(g)' <=> HandlerWill(g)
        /\ Updating(g)' <=> Updating(g)
    BY <1>1 DEF Kept, Noticed, WrittenSince, Written, Removal, HandlerWill, Updating
  <2>2. CASE g = f
    <3>1. Done(g)'
      BY <2>2, <1>1, <1>3, <1>4 DEF Done
    <3>2. ScanTrue(g)'
      BY <2>2, <1>6 DEF ScanTrue
    <3>. QED  BY <3>1, <3>2, <2>1 DEF Attended, Covered, HashTrue
  <2>3. CASE g # f
    <3>1. /\ ScanWill(g)' <=> ScanWill(g)
          /\ Done(g)' <=> Done(g)
          /\ ScanTrue(g)' <=> ScanTrue(g)
          /\ ~HookWill(g)
      BY <2>3, <1>1, <1>4, <1>6 DEF ScanWill, Done, ScanTrue, HookWill, f
    <3>. QED  BY <3>1, <2>1, <1>1, <1>10 DEF Kept, Attended, Covered, HashTrue
  <2>. QED  BY <2>2, <2>3
<1>. QED  BY <1>1, <1>7, <1>8, <1>9, <1>10 DEF Kept

\* A channel that connects or disconnects touches no file.
LEMMA ChannelMissed ==
  ASSUME FeedInv, Kept, IdAssumption, Channel
  PROVE  Kept'
<1>1. PICK r \in Runtime, p \in {"connect", "disconnect"}, v \in {Online, None} :
        dispatchRuntimeAuthUpdate(p, r, v)
  BY DEF Channel, wsOnConnected, wsOnDisconnected
<1>2. /\ changes' = changes + 1
      /\ runtimeAuths' = [runtimeAuths EXCEPT ![r] = v]
      /\ currentAuths' = [currentAuths EXCEPT ![r] = v]
      /\ stampAuthUpdatesLocked(p, {r}, [i \in {r} |-> v])
      /\ ScanStale({r})
      /\ UNCHANGED <<disk, events, lastAuthHashes, handler, hook>>
  BY <1>1 DEF dispatchRuntimeAuthUpdate, Counting, fileVars
<1>3. FilesTyped /\ Places /\ v \in Values
  BY TypesSplit DEF FeedInv, Values
<1>4. {r} \in SUBSET Ids /\ r \notin Files
  BY DEF Ids, IdAssumption
<1>5. /\ \A g \in Files : currentAuths'[g] = currentAuths[g]
      /\ \A q \in Runtime : /\ currentAuths'[q] = IF q = r THEN v ELSE currentAuths[q]
                            /\ runtimeAuths'[q] = IF q = r THEN v ELSE runtimeAuths[q]
  BY <1>2, <1>3, <1>4 DEF FilesTyped, Ids
<1>6. /\ scan'.at = scan.at /\ scan'.found = scan.found
      /\ scan'.stale = IF scan.at \in {"reading", "committing"} THEN scan.stale \cup {r} ELSE scan.stale
  BY <1>2, <1>3, <1>4, StaleEffect
<1>7. Believed'
  <2>1. \A i \in {r} : [j \in {r} |-> v][i] \in Values /\ [j \in {r} |-> v][i] = v
    BY <1>3
  <2>2. \A g \in Files : g \notin {r} /\ currentAuths'[g] = currentAuths[g]
    BY <1>4, <1>5
  <2>3. \A q \in Runtime : /\ currentAuths'[q] = runtimeAuths'[q]
                           /\ IF q \in {r} THEN currentAuths'[q] = [j \in {r} |-> v][q]
                              ELSE currentAuths'[q] = currentAuths[q]
    BY <2>1, <1>5 DEF Kept, Believed
  <2>. QED  BY <2>1, <2>2, <2>3, <1>2, <1>4, BelievedStamped
<1>8. Numbered'
  BY <1>2, <1>5, <1>6, NumberTypes DEF Kept, Numbered
<1>9. InHand'
  BY <1>2, <1>6 DEF Kept, InHand, Noticed, Written
<1>10. ASSUME NEW g \in Files  PROVE WrittenSince(g)' /\ (Readable(disk[g]) => Attended(g)')
  BY <1>2, <1>4, <1>5, <1>6, <1>10 DEF Kept, WrittenSince, Noticed, Written, Removal, Attended, Covered, HashTrue,
     ScanTrue, HandlerWill, Updating, ScanWill, HookWill, Done
<1>. QED  BY <1>2, <1>7, <1>8, <1>9, <1>10 DEF Kept

-----------------------------------------------------------------------------
LEMMA MissInit ==
  ASSUME Init, BoundAssumption  PROVE Kept
<1>. USE DEF Init, HandlerIdle, ScanIdle, HookIdle
<1>4. InHand
  BY DEF InHand
<1>1. Numbered
  BY DEF Numbered, None, Ids
<1>2. Believed
  <2>1. \A i \in Ids : Published(i) = None
    BY DEF Published, Revision
  <2>. QED  BY <2>1 DEF Believed, Ids
<1>3. \A f \in Files : WrittenSince(f) /\ ~Readable(disk[f])
  BY DEF WrittenSince, Readable
<1>. QED  BY <1>1, <1>2, <1>3, <1>4 DEF Kept

LEMMA MissStep ==
  ASSUME FeedInv, Kept, ~Overlap, IdAssumption, BoundAssumption, [Next]_vars
  PROVE  Kept'
<1>1. CASE UNCHANGED vars
  BY <1>1, ElsewhereMissed DEF vars, FilesOf, fileVars, stateVars
<1>2. CASE Outside
  <2>1. PICK f \in Files : WriteFile(f) \/ TruncateFile(f) \/ RemoveFile(f) \/ DebounceWindowPasses(f)
    BY <1>2 DEF Outside
  <2>2. CASE DebounceWindowPasses(f)
    BY <2>2, ElsewhereMissed DEF DebounceWindowPasses, FilesOf, fileVars, stateVars
  <2>3. CASE WriteFile(f)
    <3>1. changes + 1 \in Contents /\ changes + 1 # None
      BY <2>3 DEF WriteFile, Change, Counting, Contents, FeedInv, TypeOK, None, BoundAssumption
    <3>. QED  BY <2>3, <3>1, ChangeMissed DEF WriteFile
  <2>4. CASE TruncateFile(f)
    BY <2>4, ChangeMissed DEF TruncateFile, Readable, None, Torn
  <2>5. CASE RemoveFile(f)
    BY <2>5, ChangeMissed DEF RemoveFile, Readable
  <2>. QED  BY <2>1, <2>2, <2>3, <2>4, <2>5
<1>3. CASE HandleEvent
  BY <1>3, EventMissed
<1>4. CASE Handler
  BY <1>4, LookMissed, ReadMissed, UpdateMissed, RemoveMissed DEF Handler
<1>5. CASE Scan
  BY <1>5, ScanMissed, CommitMissed DEF Scan
<1>6. CASE Hook
  <2>1. CASE HookApply
    BY <2>1, ElsewhereMissed DEF HookApply, FilesOf, fileVars, stateVars
  <2>. QED  BY <2>1, <1>6, HookMissed DEF Hook
<1>7. CASE Channel
  BY <1>7, ChannelMissed
<1>8. CASE \E affected \in SUBSET Files, force \in BOOLEAN : Reload(affected, force)
  BY <1>8, ReloadMissed
<1>9. CASE \E f \in Files : Save(f)
  BY <1>9, SaveMissed
<1>10. CASE (\E p \in Procs : dispatchAuthUpdates(p)) \/ nextPendingBatch \/ Consume
  BY <1>10, ElsewhereMissed DEF dispatchAuthUpdates, nextPendingBatch, Consume, consumeAuthUpdates, FilesOf,
     fileVars, stateVars
<1>. QED  BY <1>1, <1>2, <1>3, <1>4, <1>5, <1>6, <1>7, <1>8, <1>9, <1>10 DEF Next

\* When nothing is under way any more, the service holds what was published last.
LEMMA SettledServes ==
  ASSUME FeedInv, Kept, Quiescent  PROVE NothingMissed
<1>1. \A i \in Ids : service[i] = Published(i)
  <2>. SUFFICES ASSUME NEW i \in Ids  PROVE service[i] = Published(i)
    OBVIOUS
  <2>1. queue = <<>> /\ pending = {} /\ \A p \in Procs : out[p] = {}
    BY DEF Quiescent
  <2>2. ~InTransit(Latest(i))
    BY <2>1 DEF InTransit
  <2>3. processed[i] = Revision(i)
    BY <2>2 DEF FeedInv, NewestOnItsWay
  <2>. QED  BY <2>3 DEF FeedInv, Served, Published
<1>2. ASSUME NEW f \in Files, Readable(disk[f])  PROVE service[f] = disk[f]
  <2>1. Done(f)
    BY <1>2 DEF Kept, Attended, Covered, Noticed, HandlerWill, Updating, ScanWill, HookWill, Quiescent
  <2>. QED  BY <2>1, <1>1, <1>2 DEF Done, Kept, Believed, Ids, Readable
<1>3. ASSUME NEW r \in Runtime  PROVE service[r] = runtimeAuths[r]
  BY <1>1, <1>3 DEF Kept, Believed, Ids
<1>. QED  BY <1>2, <1>3 DEF NothingMissed

THEOREM MissInvariant ==
  ASSUME ~Overlap  PROVE Spec => []MissInv
<1>1. Init => Kept
  BY MissInit, BoundAssumption
<1>2. FeedInv /\ Kept /\ [Next]_vars => Kept'
  BY MissStep, IdAssumption, BoundAssumption
<1>3. FeedInv /\ Kept => MissInv
  BY DEF Kept, MissInv
<1>. QED  BY <1>1, <1>2, <1>3, FeedInvariant, PTL DEF Spec

\* When everything has settled, every file that can be read is served with its latest
\* content and every connected channel is served, however the events, the scans, the
\* saves and the deliveries were interleaved, if no file changes while the hook
\* publishes it.
THEOREM NothingIsMissed ==
  ASSUME ~Overlap  PROVE Spec => []NothingMissed
<1>1. MissInv => NothingMissed
  BY SettledServes DEF MissInv, Kept, NothingMissed
<1>. QED  BY <1>1, MissInvariant, PTL
=============================================================================
