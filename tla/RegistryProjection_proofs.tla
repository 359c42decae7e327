---------------------- MODULE RegistryProjection_proofs ----------------------
(***************************************************************************)
(* Proofs about RegistryProjection, for any clients, models and bounds:    *)
(* the type invariant, that a projection, however late, leaves no mark on  *)
(* a model its client no longer serves, and that the registry agrees with  *)
(* the manager once every projection of a credential has arrived.          *)
(***************************************************************************)
EXTENDS RegistryProjection, TLAPS

-----------------------------------------------------------------------------
\* What the operations of the manager make of a credential.

\* The state of a model, or the clean one it would start with, is a state.
LEMMA StateType ==
  ASSUME NEW a \in AuthSet, NEW m \in Models
  PROVE  State(a, m) \in StateSet
BY DEF AuthSet, State, Clean, StateSet

\* Looking for passed deadlines changes no version.
LEMMA AggregatedType ==
  ASSUME NEW a \in AuthSet
  PROVE  /\ updateAggregatedAvailability(a) \in AuthSet
         /\ updateAggregatedAvailability(a).gen = a.gen
<1> DEFINE state == [m \in Models |->
                       IF m \in Tracked(a) /\ a.state[m].status = "lapsed"
                       THEN [a.state[m] EXCEPT !.status = "ok"] ELSE a.state[m]]
<1>1. state \in [Models -> StateSet \cup {None}]
  BY DEF AuthSet, StateSet, Tracked
<1>2. updateAggregatedAvailability(a) =
        IF a.credential = "open" THEN a
        ELSE [a EXCEPT !.credential = "none", !.state = state]
  BY DEF updateAggregatedAvailability
<1> HIDE DEF state
<1> QED BY <1>1, <1>2 DEF AuthSet

\* Setting one model's state and looking again.
LEMMA StateSetType ==
  ASSUME NEW a \in AuthSet, NEW m \in Models, NEW s \in StateSet
  PROVE  updateAggregatedAvailability([a EXCEPT !.state[m] = s]) \in AuthSet
<1>1. [a EXCEPT !.state[m] = s] \in AuthSet
  BY DEF AuthSet
<1> QED BY <1>1, AggregatedType

\* Every outcome makes a credential of a credential.
LEMMA OutcomeType ==
  ASSUME NEW a \in AuthSet, NEW m \in Models,
         NEW outcome \in {"success", "failure", "skipped", "quota", "credentialQuota"}
  PROVE  [After(a, m, outcome) EXCEPT !.gen = @ + 1] \in AuthSet
<1>1. Succeeded(a, m) \in AuthSet
  <2>1. Clean \in StateSet
    BY DEF Clean, StateSet
  <2> QED BY <2>1, StateSetType DEF Succeeded
<1>2. Failed(a, m) \in AuthSet
  <2> DEFINE s == State(a, m)
             b == [s EXCEPT !.status = "blocked",
                            !.reason = IF @ \in {"quota", "credential_quota"}
                                       THEN @ ELSE "error"]
  <2>1. b \in StateSet
    BY StateType DEF StateSet
  <2>2. Failed(a, m) = updateAggregatedAvailability([a EXCEPT !.state[m] = b])
    BY DEF Failed
  <2> QED BY <2>1, <2>2, StateSetType
<1>3. QuotaExceeded(a, m) \in AuthSet
  <2>1. OverQuota("quota") \in StateSet
    BY DEF OverQuota, StateSet
  <2> QED BY <2>1, StateSetType DEF QuotaExceeded
<1>4. CredentialQuotaExceeded(a, m) \in AuthSet
  BY DEF CredentialQuotaExceeded, AuthSet, OverQuota, StateSet
<1>5. After(a, m, outcome) \in AuthSet
  BY <1>1, <1>2, <1>3, <1>4 DEF After
<1> QED BY <1>5 DEF AuthSet

\* A reset makes a credential of a credential.
LEMMA ResetType ==
  ASSUME NEW a \in AuthSet
  PROVE  [ResetTo(a) EXCEPT !.gen = @ + 1] \in AuthSet
<1> DEFINE state == [m \in Models |-> IF m \in Tracked(a) THEN Clean ELSE None]
<1>1. state \in [Models -> StateSet \cup {None}]
  BY DEF Clean, StateSet
<1>2. ResetTo(a) = [a EXCEPT !.credential = "none", !.state = state]
  BY DEF ResetTo
<1>3. ResetTo(a) \in AuthSet
  <2> HIDE DEF state
  <2> QED BY <1>1, <1>2 DEF AuthSet
<1> QED BY <1>3 DEF AuthSet

\* Reconciling with the registered models makes a credential of a credential.
LEMMA ReconcileType ==
  ASSUME NEW a \in AuthSet, NEW models \in SUBSET Models
  PROVE  Reconciled(a, models) \in AuthSet
<1> DEFINE Kept(m) == IF a.state[m] = None \/ m \notin models THEN None
                      ELSE IF a.state[m].status = "blocked" \/ a.state[m].open
                      THEN a.state[m] ELSE Clean
           state == [m \in Models |-> Kept(m)]
           b == [a EXCEPT !.state = state]
           c == updateAggregatedAvailability(b)
<1>1. state \in [Models -> StateSet \cup {None}]
  BY DEF AuthSet, Clean, StateSet
<1>2. b \in AuthSet
  <2> HIDE DEF state
  <2> QED BY <1>1 DEF AuthSet
<1>3. c \in AuthSet
  <2> HIDE DEF b
  <2> QED BY <1>2, AggregatedType
<1>4. Reconciled(a, models) = IF state = a.state THEN a ELSE [c EXCEPT !.gen = @ + 1]
  BY DEF Reconciled
<1> HIDE DEF state, c
<1> QED BY <1>3, <1>4 DEF AuthSet

\* What a credential projects has its type.
LEMMA ProjectionType ==
  ASSUME NEW a \in AuthSet, NEW id \in Clients, NEW e \in Nat \cup {None}
  PROVE  Projection(a, e, id) \in ProjectionSet
<1>1. [m \in Models |-> SuspendReason(a, m)] \in [Models -> Reasons]
  BY DEF SuspendReason, Reasons
<1>2. [m \in Models |-> State(a, m).open] \in [Models -> BOOLEAN]
  BY StateType DEF StateSet
<1> QED BY <1>1, <1>2 DEF Projection, ProjectionSet, AuthSet

-----------------------------------------------------------------------------
\* The registry's marks: their types, and that only registered models have any.
MarksOK ==
  /\ clientModels \in [Clients -> SUBSET Models]
  /\ clientEpochs \in [Clients -> Nat] /\ clientGenerations \in [Clients -> Nat]
  /\ suspended \in [Clients -> [Models -> Reasons]]
  /\ exceeded \in [Clients -> [Models -> Windows]]
  /\ UnregisteredHoldsNothing

\* Applying a projection, accepted or not, marks registered models only.
LEMMA ApplyKeepsMarks ==
  ASSUME MarksOK, NEW p \in ProjectionSet, ApplyClientModelProjections(p)
  PROVE  MarksOK'
<1> DEFINE id == p.client
           Own(m) == m \in clientModels[id]
           marks == [m \in Models |-> IF Own(m) THEN p.suspend[m] ELSE suspended[id][m]]
           windows == [m \in Models |-> IF ~Own(m) THEN exceeded[id][m]
                                        ELSE IF ~p.exceed[m] THEN "none"
                                        ELSE IF exceeded[id][m] = "none" THEN "fresh"
                                        ELSE exceeded[id][m]]
<1>1. CASE ~Accepted(p)
  BY <1>1 DEF ApplyClientModelProjections, MarksOK, UnregisteredHoldsNothing
<1>2. CASE Accepted(p)
  <2>1. /\ id \in Clients /\ p.gen \in Nat
        /\ clientGenerations' = [clientGenerations EXCEPT ![id] = p.gen]
        /\ suspended' = [suspended EXCEPT ![id] = marks]
        /\ exceeded' = [exceeded EXCEPT ![id] = windows]
        /\ clientModels' = clientModels /\ clientEpochs' = clientEpochs
    BY <1>2 DEF ApplyClientModelProjections, MarksOK, ProjectionSet
  <2>2. marks \in [Models -> Reasons] /\ windows \in [Models -> Windows]
    BY <2>1 DEF MarksOK, ProjectionSet, Windows
  <2>3. \A m \in Models \ clientModels[id] : marks[m] = "none" /\ windows[m] = "none"
    BY <2>1 DEF MarksOK, UnregisteredHoldsNothing
  <2> HIDE DEF marks, windows, id
  <2> QED BY <2>1, <2>2, <2>3 DEF MarksOK, UnregisteredHoldsNothing
<1> QED BY <1>1, <1>2

\* A registration, and the lack of one, begins with no marks.
LEMMA RegisterClientKeepsNoMarks ==
  ASSUME MarksOK, NEW id \in Clients, NEW models \in SUBSET Models,
         RegisterClient(id, models)
  PROVE  MarksOK'
<1>1. [m \in Models |-> "none"] \in [Models -> Reasons]
      /\ [m \in Models |-> "none"] \in [Models -> Windows]
  BY DEF Reasons, Windows
<1> QED BY <1>1 DEF RegisterClient, Unmarked, MarksOK, UnregisteredHoldsNothing

\* A quota window that passes unmarks nothing and marks nothing.
LEMMA WindowKeepsMarks ==
  ASSUME MarksOK, NEW id \in Clients, NEW m \in Models, WindowPasses(id, m)
  PROVE  MarksOK'
<1>1. m \in clientModels[id]
  BY DEF WindowPasses, MarksOK, UnregisteredHoldsNothing
<1>2. exceeded'[id] = [exceeded[id] EXCEPT ![m] = "old"]
      /\ \A o \in Clients : o # id => exceeded'[o] = exceeded[o]
  BY DEF WindowPasses, MarksOK
<1>3. exceeded' \in [Clients -> [Models -> Windows]]
  BY DEF WindowPasses, MarksOK, Windows
<1> QED BY <1>1, <1>2, <1>3 DEF WindowPasses, MarksOK, UnregisteredHoldsNothing

-----------------------------------------------------------------------------
\* The inductive invariant.
Inv == TypeOK /\ UnregisteredHoldsNothing

\* At startup nothing is suspended.
LEMMA InitInv == Init => Inv
<1> SUFFICES ASSUME Init PROVE Inv
  OBVIOUS
<1>1. Fresh(1) \in AuthSet
  BY DEF Fresh, AuthSet
<1>2. TypeOK
  BY <1>1, BoundAssumption DEF Init, TypeOK, Reasons, Windows
<1> QED BY <1>2 DEF Init, Inv, UnregisteredHoldsNothing

\* Every step keeps the types, and leaves unregistered models without marks.
LEMMA NextInv == Inv /\ [Next]_vars => Inv'
<1> SUFFICES ASSUME Inv, [Next]_vars PROVE Inv'
  OBVIOUS
<1>0. MarksOK
  BY DEF Inv, TypeOK, MarksOK
<1> USE BoundAssumption
<1>1. ASSUME NEW id \in Clients, NEW m \in Models,
             NEW outcome \in {"success", "failure", "skipped", "quota", "credentialQuota"},
             MarkResult(id, m, outcome)
      PROVE  Inv'
  <2> DEFINE a == [After(manager[id], m, outcome) EXCEPT !.gen = @ + 1]
  <2>1. a \in AuthSet
    <3>1. manager[id] \in AuthSet
      BY <1>1 DEF Inv, TypeOK, MarkResult
    <3> QED BY <3>1, OutcomeType
  <2>2. Projection(a, None, id) \in ProjectionSet
    <3> HIDE DEF a
    <3> QED BY <2>1, ProjectionType
  <2>3. manager' = [manager EXCEPT ![id] = a]
        /\ projecting' = projecting \cup {Projection(a, None, id)}
    BY <1>1 DEF MarkResult
  <2>4. ops' \in 0..MaxOps /\ UNCHANGED <<authEpochs, reconcileDue, registryVars>>
    BY <1>1 DEF MarkResult, Operation, Inv, TypeOK
  <2> HIDE DEF a
  <2>5. TypeOK'
    BY <2>1, <2>2, <2>3, <2>4 DEF Inv, TypeOK, registryVars
  <2> QED BY <2>4, <2>5 DEF Inv, registryVars, UnregisteredHoldsNothing
<1>2. ASSUME NEW id \in Clients, ResetQuota(id) PROVE Inv'
  <2> DEFINE a == [ResetTo(manager[id]) EXCEPT !.gen = @ + 1]
  <2>1. a \in AuthSet
    <3>1. manager[id] \in AuthSet
      BY <1>2 DEF Inv, TypeOK, ResetQuota
    <3> QED BY <3>1, ResetType
  <2>2. Projection(a, None, id) \in ProjectionSet
    <3> HIDE DEF a
    <3> QED BY <2>1, ProjectionType
  <2>3. manager' = [manager EXCEPT ![id] = a]
        /\ projecting' = projecting \cup {Projection(a, None, id)}
    BY <1>2 DEF ResetQuota
  <2>4. ops' \in 0..MaxOps /\ UNCHANGED <<authEpochs, reconcileDue, registryVars>>
    BY <1>2 DEF ResetQuota, Operation, Inv, TypeOK
  <2> HIDE DEF a
  <2>5. TypeOK'
    BY <2>1, <2>2, <2>3, <2>4 DEF Inv, TypeOK, registryVars
  <2> QED BY <2>4, <2>5 DEF Inv, registryVars, UnregisteredHoldsNothing
<1>3. ASSUME NEW id \in Clients, Expire(id) PROVE Inv'
  <2>1. manager[id] \in AuthSet
    BY <1>3 DEF Inv, TypeOK, Expire
  <2>2. manager' \in [Clients -> AuthSet \cup {None}]
    <3>1. ASSUME NEW m \in Tracked(manager[id]),
                 manager' = [manager EXCEPT ![id].state[m].status = "lapsed",
                                            ![id].state[m].open = FALSE]
          PROVE  manager'[id] \in AuthSet
      <4>1. manager[id].state[m] \in StateSet /\ m \in Models
        BY <2>1, <3>1 DEF Tracked, AuthSet
      <4>2. [manager[id].state[m] EXCEPT !.status = "lapsed", !.open = FALSE] \in StateSet
        BY <4>1 DEF StateSet
      <4>3. manager'[id] = [manager[id] EXCEPT !.state[m] =
                [manager[id].state[m] EXCEPT !.status = "lapsed", !.open = FALSE]]
        BY <2>1, <3>1, <4>1 DEF Inv, TypeOK, AuthSet, StateSet
      <4> QED BY <2>1, <4>1, <4>2, <4>3 DEF AuthSet
    <3>2. ASSUME manager' = [manager EXCEPT ![id].credential = "lapsed"]
          PROVE  manager'[id] \in AuthSet
      <4>1. manager'[id] = [manager[id] EXCEPT !.credential = "lapsed"]
        BY <3>2 DEF Inv, TypeOK
      <4> QED BY <2>1, <4>1 DEF AuthSet
    <3>3. manager'[id] \in AuthSet
      BY <1>3, <3>1, <3>2 DEF Expire
    <3>4. manager' = [manager EXCEPT ![id] = manager'[id]]
      BY <1>3 DEF Expire, Inv, TypeOK
    <3> QED BY <3>3, <3>4 DEF Inv, TypeOK
  <2> QED BY <1>3, <2>2 DEF Inv, TypeOK, Expire, registryVars, UnregisteredHoldsNothing
<1>4. ASSUME NEW id \in Clients, Register(id) PROVE Inv'
  <2>1. Fresh(authEpochs[id] + 1) \in AuthSet
    BY DEF Inv, TypeOK, Fresh, AuthSet
  <2> QED BY <1>4, <2>1
        DEF Inv, TypeOK, Register, Operation, registryVars, UnregisteredHoldsNothing
<1>5. ASSUME NEW id \in Clients, Remove(id) PROVE Inv'
  BY <1>5 DEF Inv, TypeOK, Remove, Operation, registryVars, UnregisteredHoldsNothing
<1>6. ASSUME NEW id \in Clients, ReconcileRegistryModelStates(id) PROVE Inv'
  <2>1. CASE manager[id] = None
    BY <1>6, <2>1 DEF Inv, TypeOK, ReconcileRegistryModelStates, registryVars,
                      UnregisteredHoldsNothing
  <2>2. CASE manager[id] # None
    <3> DEFINE a == Reconciled(manager[id], clientModels[id])
    <3>1. a \in AuthSet
      BY <2>2, ReconcileType DEF Inv, TypeOK
    <3>2. Projection(a, clientEpochs[id], id) \in ProjectionSet
      <4> HIDE DEF a
      <4> QED BY <3>1, ProjectionType DEF Inv, TypeOK
    <3>3. manager' = [manager EXCEPT ![id] = a]
          /\ projecting' = projecting \cup {Projection(a, clientEpochs[id], id)}
      BY <1>6, <2>2 DEF ReconcileRegistryModelStates
    <3> HIDE DEF a
    <3> QED BY <1>6, <3>1, <3>2, <3>3 DEF Inv, TypeOK, ReconcileRegistryModelStates,
                                          registryVars, UnregisteredHoldsNothing
  <2> QED BY <2>1, <2>2
<1>7. ASSUME NEW id \in Clients, NEW models \in SUBSET Models, RegisterClient(id, models)
      PROVE  Inv'
  <2>1. MarksOK'
    BY <1>0, <1>7, RegisterClientKeepsNoMarks
  <2> QED BY <1>7, <2>1 DEF Inv, TypeOK, MarksOK, RegisterClient, Operation, mgrVars
<1>8. ASSUME NEW p \in projecting, GetModelsAndEpochForClient(p) PROVE Inv'
  <2>1. [p EXCEPT !.regEpoch = clientEpochs[p.client]] \in ProjectionSet
    BY DEF Inv, TypeOK, ProjectionSet
  <2> QED BY <1>8, <2>1 DEF Inv, TypeOK, GetModelsAndEpochForClient, mgrVars, registryVars,
                            UnregisteredHoldsNothing
<1>9. ASSUME NEW p \in projecting, ApplyClientModelProjections(p) PROVE Inv'
  <2>1. MarksOK'
    BY <1>0, <1>9, ApplyKeepsMarks DEF Inv, TypeOK
  <2>2. UNCHANGED <<ops, reconcileDue, manager, authEpochs>> /\ projecting' \subseteq projecting
    BY <1>9 DEF ApplyClientModelProjections, mgrVars
  <2> QED BY <2>1, <2>2 DEF Inv, TypeOK, MarksOK
<1>10. ASSUME NEW id \in Clients, NEW m \in Models, WindowPasses(id, m) PROVE Inv'
  <2>1. MarksOK'
    BY <1>0, <1>10, WindowKeepsMarks
  <2> QED BY <1>10, <2>1 DEF Inv, TypeOK, MarksOK, WindowPasses, mgrVars
<1>11. CASE UNCHANGED vars
  BY <1>11 DEF vars, Inv, TypeOK, UnregisteredHoldsNothing
<1> QED BY <1>1, <1>2, <1>3, <1>4, <1>5, <1>6, <1>7, <1>8, <1>9, <1>10, <1>11 DEF Next

\* The variables of the manager, of the projections on their way and of the
\* registry keep their types.
THEOREM TypeCorrect == Spec => []TypeOK
<1>1. Inv => TypeOK
  BY DEF Inv
<1> QED BY <1>1, InitInv, NextInv, PTL DEF Spec

\* However late a projection is applied, the registry holds no suspension and
\* no quota mark of a client for a model that client no longer serves, so the
\* clients that remain are counted right.
THEOREM UnregisteredModelsHoldNothing == Spec => []UnregisteredHoldsNothing
<1>1. Inv => UnregisteredHoldsNothing
  BY DEF Inv
<1> QED BY <1>1, InitInv, NextInv, PTL DEF Spec

-----------------------------------------------------------------------------
\* Why the registry comes to agree.  Of a credential of the first incarnation,
\* the projection of its latest version is still to be computed, is on its way and
\* will be accepted, or has arrived; and an earlier one is not accepted after it,
\* because the registry keeps the version it has applied.
Reflects(suspend, a, models) ==
  \A m \in models : /\ BlockedFor(a, m) => suspend[m] # "none"
                    /\ NeverBlockedFor(a, m) => suspend[m] = "none"
First(id) == manager[id] # None /\ manager[id].epoch = 1
Latest(p, id) ==
  p.client = id /\ p.gen = manager[id].gen /\ p.regEpoch \in {None, clientEpochs[id]}
OnItsWay(id) == id \in reconcileDue \/ \E p \in projecting : Latest(p, id)
Arrived(id) ==
  /\ Reflects(suspended[id], manager[id], clientModels[id])
  /\ clientModels[id] = {} \/ clientGenerations[id] = manager[id].gen \/ manager[id].gen = 1
NoneAhead(id) ==
  /\ manager[id].gen >= 1
  /\ clientModels[id] # {} => clientGenerations[id] <= manager[id].gen
  /\ \A p \in projecting : p.client = id =>
        /\ 1 <= p.gen /\ p.gen <= manager[id].gen
        /\ p.gen = manager[id].gen => Reflects(p.suspend, manager[id], Models)
Agreeing(id) == authEpochs[id] >= 1 /\ (First(id) => NoneAhead(id) /\ (OnItsWay(id) \/ Arrived(id)))
AgreeInv == \A id \in Clients : Agreeing(id)

\* What an operation of the manager makes of a credential is of the same
\* incarnation, and of the same version but for the increment every operation adds.
LEMMA SameVersion ==
  ASSUME NEW a \in AuthSet
  PROVE  /\ updateAggregatedAvailability(a).epoch = a.epoch
         /\ updateAggregatedAvailability(a).gen = a.gen
         /\ ResetTo(a).epoch = a.epoch /\ ResetTo(a).gen = a.gen
         /\ \A m \in Models, outcome \in {"success", "failure", "skipped", "quota", "credentialQuota"} :
               After(a, m, outcome).epoch = a.epoch /\ After(a, m, outcome).gen = a.gen
<1>1. ASSUME NEW b \in AuthSet
      PROVE  /\ updateAggregatedAvailability(b).epoch = b.epoch
             /\ updateAggregatedAvailability(b).gen = b.gen
  BY DEF updateAggregatedAvailability, AuthSet
<1>2. ASSUME NEW m \in Models, NEW s \in StateSet
      PROVE  /\ updateAggregatedAvailability([a EXCEPT !.state[m] = s]).epoch = a.epoch
             /\ updateAggregatedAvailability([a EXCEPT !.state[m] = s]).gen = a.gen
  <2>1. /\ [a EXCEPT !.state[m] = s] \in AuthSet /\ [a EXCEPT !.state[m] = s].epoch = a.epoch
        /\ [a EXCEPT !.state[m] = s].gen = a.gen
    BY DEF AuthSet
  <2> QED BY <1>1, <2>1
<1>3. ASSUME NEW m \in Models,
             NEW outcome \in {"success", "failure", "skipped", "quota", "credentialQuota"}
      PROVE  After(a, m, outcome).epoch = a.epoch /\ After(a, m, outcome).gen = a.gen
  <2>1. Clean \in StateSet /\ OverQuota("quota") \in StateSet
    BY DEF Clean, OverQuota, StateSet
  <2> DEFINE s == State(a, m)
             b == [s EXCEPT !.status = "blocked",
                            !.reason = IF @ \in {"quota", "credential_quota"} THEN @ ELSE "error"]
  <2>2. b \in StateSet
    BY StateType DEF StateSet
  <2>3. Failed(a, m) = updateAggregatedAvailability([a EXCEPT !.state[m] = b])
    BY DEF Failed
  <2> HIDE DEF b
  <2>4. Failed(a, m).epoch = a.epoch /\ Failed(a, m).gen = a.gen
    BY <1>2, <2>2, <2>3
  <2>5. Succeeded(a, m).epoch = a.epoch /\ Succeeded(a, m).gen = a.gen
    BY <1>2, <2>1 DEF Succeeded
  <2>6. QuotaExceeded(a, m).epoch = a.epoch /\ QuotaExceeded(a, m).gen = a.gen
    BY <1>2, <2>1 DEF QuotaExceeded
  <2>7. CredentialQuotaExceeded(a, m).epoch = a.epoch /\ CredentialQuotaExceeded(a, m).gen = a.gen
    BY DEF CredentialQuotaExceeded, AuthSet
  <2> QED BY <2>4, <2>5, <2>6, <2>7 DEF After
<1>4. ResetTo(a).epoch = a.epoch /\ ResetTo(a).gen = a.gen
  BY DEF ResetTo, AuthSet
<1> QED BY <1>1, <1>3, <1>4

\* Reconciling changes nothing, or makes the next version.
LEMMA ReconciledVersion ==
  ASSUME NEW a \in AuthSet, NEW models \in SUBSET Models
  PROVE  /\ Reconciled(a, models).epoch = a.epoch
         /\ Reconciled(a, models) = a \/ Reconciled(a, models).gen = a.gen + 1
<1> DEFINE Kept(m) == IF a.state[m] = None \/ m \notin models THEN None
                      ELSE IF a.state[m].status = "blocked" \/ a.state[m].open
                      THEN a.state[m] ELSE Clean
           state == [m \in Models |-> Kept(m)]
           b == [a EXCEPT !.state = state]
           c == updateAggregatedAvailability(b)
<1>1. state \in [Models -> StateSet \cup {None}]
  BY DEF AuthSet, Clean, StateSet
<1>2. b \in AuthSet /\ b.epoch = a.epoch /\ b.gen = a.gen
  <2> HIDE DEF state
  <2> QED BY <1>1 DEF AuthSet
<1>3. c \in AuthSet /\ c.epoch = a.epoch /\ c.gen = a.gen
  <2> HIDE DEF b
  <2> QED BY <1>2, AggregatedType, SameVersion
<1>4. Reconciled(a, models) = IF state = a.state THEN a ELSE [c EXCEPT !.gen = @ + 1]
  BY DEF Reconciled
<1> HIDE DEF state, c
<1> QED BY <1>3, <1>4 DEF AuthSet

\* A projection suspends what the credential it was made of blocks, and nothing
\* that credential has cleared.
LEMMA ProjectionReflects ==
  ASSUME NEW a \in AuthSet, NEW id \in Clients, NEW e
  PROVE  Reflects(Projection(a, e, id).suspend, a, Models)
<1>1. ASSUME NEW m \in Models
      PROVE  /\ BlockedFor(a, m) => SuspendReason(a, m) # "none"
             /\ NeverBlockedFor(a, m) => SuspendReason(a, m) = "none"
  BY DEF BlockedFor, NeverBlockedFor, SuspendReason
<1> QED BY <1>1 DEF Reflects, Projection

-----------------------------------------------------------------------------
\* A client of which a step changes nothing goes on agreeing.
LEMMA ElsewhereAgreeing ==
  ASSUME NEW id \in Clients, Agreeing(id),
         manager'[id] = manager[id], authEpochs'[id] = authEpochs[id],
         id \in reconcileDue => id \in reconcileDue',
         \A p \in projecting : p.client = id => p \in projecting',
         \A p \in projecting' : p.client = id => p \in projecting,
         clientModels'[id] = clientModels[id], clientEpochs'[id] = clientEpochs[id],
         clientGenerations'[id] = clientGenerations[id], suspended'[id] = suspended[id]
  PROVE  Agreeing(id)'
<1>1. First(id)' => First(id)
  BY DEF First
<1>2. NoneAhead(id) => NoneAhead(id)'
  BY DEF NoneAhead, Reflects, BlockedFor, NeverBlockedFor
<1>3. OnItsWay(id) => OnItsWay(id)'
  BY DEF OnItsWay, Latest
<1>4. Arrived(id) => Arrived(id)'
  BY DEF Arrived, Reflects, BlockedFor, NeverBlockedFor
<1> QED BY <1>1, <1>2, <1>3, <1>4 DEF Agreeing

\* A new version of a credential, or the same one again, with its projection.
LEMMA NewVersionAgreeing ==
  ASSUME Inv, AgreeInv, NEW id \in Clients, manager[id] # None,
         NEW a \in AuthSet, a.epoch = manager[id].epoch,
         a = manager[id] \/ a.gen = manager[id].gen + 1,
         NEW e \in {None, clientEpochs[id]},
         manager' = [manager EXCEPT ![id] = a],
         projecting' = projecting \cup {Projection(a, e, id)},
         \A o \in Clients \ {id} : o \in reconcileDue => o \in reconcileDue',
         authEpochs' = authEpochs, UNCHANGED registryVars
  PROVE  AgreeInv'
<1> DEFINE q == Projection(a, e, id)
<1>0. /\ manager[id] \in AuthSet /\ manager'[id] = a
      /\ \A o \in Clients \ {id} : manager'[o] = manager[o]
      /\ q.client = id /\ q.gen = a.gen /\ q.regEpoch = e
      /\ projecting \subseteq ProjectionSet
      /\ clientGenerations[id] \in Nat
  BY DEF Inv, TypeOK, Projection
<1>1. Reflects(q.suspend, a, Models)
  BY ProjectionReflects
<1> HIDE DEF q
<1>2. ASSUME NEW o \in Clients \ {id} PROVE Agreeing(o)'
  BY <1>0, ElsewhereAgreeing DEF AgreeInv, registryVars, q
<1>3. ASSUME First(id)' PROVE NoneAhead(id)' /\ OnItsWay(id)'
  <2>0. a.gen \in Nat /\ manager[id].gen \in Nat /\ a.gen >= manager[id].gen
    BY <1>0 DEF AuthSet
  <2>1. NoneAhead(id) /\ a.gen \in Nat /\ manager[id].gen \in Nat /\ a.gen >= manager[id].gen
    BY <1>0, <1>3, <2>0, ZenonT(30) DEF First, AgreeInv, Agreeing
  <2>2. ASSUME NEW p \in projecting, p.client = id
        PROVE  /\ 1 <= p.gen /\ p.gen <= a.gen
               /\ p.gen = a.gen => Reflects(p.suspend, a, Models)
    <3>1. p.gen \in Nat /\ 1 <= p.gen /\ p.gen <= manager[id].gen
          /\ (p.gen = manager[id].gen => Reflects(p.suspend, manager[id], Models))
      BY <1>0, <2>1, <2>2 DEF NoneAhead, ProjectionSet
    <3> QED BY <2>1, <3>1
  <2>3. 1 <= a.gen /\ (clientModels[id] # {} => clientGenerations[id] <= a.gen)
    BY <1>0, <2>1 DEF NoneAhead
  <2>4. NoneAhead(id)'
    BY <1>0, <1>1, <2>1, <2>2, <2>3 DEF NoneAhead, registryVars, Reflects, BlockedFor, NeverBlockedFor, q
  <2>5. Latest(q, id)' /\ q \in projecting'
    BY <1>0 DEF Latest, registryVars, q
  <2> QED BY <2>4, <2>5 DEF OnItsWay
<1>4. Agreeing(id)'
  BY <1>3 DEF AgreeInv, Agreeing
<1> QED BY <1>2, <1>4 DEF AgreeInv

\* A deadline that passes asks for nothing new of the registry.
LEMMA ExpireAgreeing ==
  ASSUME Inv, AgreeInv, NEW id \in Clients, Expire(id)
  PROVE  AgreeInv'
<1>1. /\ manager[id] \in AuthSet /\ \A o \in Clients \ {id} : manager'[o] = manager[o]
      /\ UNCHANGED <<authEpochs, projecting, reconcileDue, registryVars>>
      /\ projecting \subseteq ProjectionSet
  BY DEF Expire, Inv, TypeOK
<1>2. /\ manager'[id].epoch = manager[id].epoch /\ manager'[id].gen = manager[id].gen
      /\ \A m \in Models : /\ BlockedFor(manager'[id], m) => BlockedFor(manager[id], m)
                           /\ NeverBlockedFor(manager'[id], m) => NeverBlockedFor(manager[id], m)
  <2>1. ASSUME NEW n \in Tracked(manager[id]), manager[id].state[n].status = "blocked",
               manager' = [manager EXCEPT ![id].state[n].status = "lapsed",
                                          ![id].state[n].open = FALSE]
        PROVE  <1>2
    <3> DEFINE s == [manager[id].state[n] EXCEPT !.status = "lapsed", !.open = FALSE]
    <3>1. manager[id].state[n] \in StateSet /\ n \in Models
      BY <1>1, <2>1 DEF Tracked, AuthSet
    <3>2. manager'[id] = [manager[id] EXCEPT !.state[n] = s]
      BY <1>1, <2>1, <3>1, ZenonT(30) DEF Inv, TypeOK, AuthSet, StateSet
    <3>3. s.status = "lapsed"
      BY <3>1 DEF StateSet
    <3> HIDE DEF s
    <3>4. /\ manager'[id].epoch = manager[id].epoch /\ manager'[id].gen = manager[id].gen
          /\ manager'[id].credential = manager[id].credential
          /\ manager'[id].state = [manager[id].state EXCEPT ![n] = s]
      BY <1>1, <3>2 DEF AuthSet
    <3>5. ASSUME NEW m \in Models, m # n
          PROVE  State(manager'[id], m) = State(manager[id], m)
      BY <1>1, <3>1, <3>4, <3>5 DEF State, AuthSet
    <3>6. State(manager'[id], n).status # "blocked" /\ State(manager'[id], n).status # "ok"
      <4>1. s \in StateSet /\ manager'[id].state[n] = s
        BY <1>1, <3>1, <3>4 DEF s, StateSet, AuthSet
      <4>2. s # None
        BY <4>1, NoneAssumption
      <4> QED BY <3>3, <4>1, <4>2 DEF State
    <3> QED BY <3>4, <3>5, <3>6 DEF BlockedFor, NeverBlockedFor
  <2>2. ASSUME manager[id].credential = "open",
               manager' = [manager EXCEPT ![id].credential = "lapsed"]
        PROVE  <1>2
    <3>1. manager'[id] = [manager[id] EXCEPT !.credential = "lapsed"]
      BY <2>2 DEF Inv, TypeOK
    <3>2. /\ manager'[id].epoch = manager[id].epoch /\ manager'[id].gen = manager[id].gen
          /\ manager'[id].credential = "lapsed"
      BY <1>1, <3>1 DEF AuthSet
    <3> QED BY <2>2, <3>2 DEF BlockedFor, NeverBlockedFor
  <2> QED BY <2>1, <2>2 DEF Expire
<1>3. ASSUME NEW o \in Clients \ {id} PROVE Agreeing(o)'
  BY <1>1, ElsewhereAgreeing DEF AgreeInv, registryVars
<1>4. ASSUME NEW s, NEW models \in SUBSET Models, Reflects(s, manager[id], models)
      PROVE  Reflects(s, manager'[id], models)
  BY <1>2, <1>4 DEF Reflects
<1>5. ASSUME First(id)' PROVE NoneAhead(id)' /\ (OnItsWay(id)' \/ Arrived(id)')
  <2>1. First(id)
    BY <1>2, <1>5 DEF First, Expire
  <2>2. NoneAhead(id)'
    BY <1>1, <1>2, <1>4, <2>1 DEF AgreeInv, Agreeing, NoneAhead, registryVars
  <2>3. OnItsWay(id) => OnItsWay(id)'
    BY <1>1, <1>2 DEF OnItsWay, Latest, registryVars
  <2>4. Arrived(id) => Arrived(id)'
    BY <1>1, <1>2, <1>4 DEF Arrived, registryVars, Inv, TypeOK
  <2> QED BY <2>1, <2>2, <2>3, <2>4 DEF AgreeInv, Agreeing
<1>6. Agreeing(id)'
  BY <1>1, <1>5 DEF AgreeInv, Agreeing
<1> QED BY <1>3, <1>6 DEF AgreeInv

\* A projection that is applied has arrived; a late one is refused.
LEMMA ApplyAgreeing ==
  ASSUME Inv, AgreeInv, NEW p \in projecting, ApplyClientModelProjections(p)
  PROVE  AgreeInv'
<1> DEFINE id == p.client
<1>1. /\ id \in Clients /\ p.gen \in Nat /\ p.suspend \in [Models -> Reasons]
      /\ clientModels[id] \subseteq Models /\ projecting' = projecting \ {p}
      /\ p.regEpoch # None
      /\ UNCHANGED <<manager, authEpochs, reconcileDue, clientModels, clientEpochs>>
  BY DEF ApplyClientModelProjections, Inv, TypeOK, ProjectionSet, mgrVars
<1>2. CASE ~Accepted(p)
  <2>0. UNCHANGED <<clientGenerations, suspended>>
    BY <1>2 DEF ApplyClientModelProjections
  <2>1. ASSUME NEW o \in Clients, o # id PROVE Agreeing(o)'
    BY <1>1, <2>0, <2>1, ElsewhereAgreeing DEF AgreeInv
  <2>2. ASSUME First(id)' PROVE NoneAhead(id)' /\ (OnItsWay(id)' \/ Arrived(id)')
    <3>1. First(id) /\ NoneAhead(id) /\ (OnItsWay(id) \/ Arrived(id))
      BY <1>1, <2>2 DEF First, AgreeInv, Agreeing
    <3>2. NoneAhead(id)'
      BY <1>1, <2>0, <3>1 DEF NoneAhead, Reflects
    <3>3. Arrived(id) => Arrived(id)'
      BY <1>1, <2>0 DEF Arrived, Reflects
    <3>4. CASE Latest(p, id)
      <4>1. clientModels[id] = {}
        BY <1>1, <1>2, <3>1, <3>4 DEF Accepted, Latest, NoneAhead
      <4> QED BY <1>1, <3>2, <4>1 DEF Arrived, Reflects
    <3>5. CASE ~Latest(p, id)
      BY <1>1, <3>1, <3>2, <3>3, <3>5 DEF OnItsWay, Latest
    <3> QED BY <3>4, <3>5
  <2>3. Agreeing(id)'
    BY <1>1, <2>2 DEF AgreeInv, Agreeing
  <2> QED BY <2>1, <2>3 DEF AgreeInv
<1>3. CASE Accepted(p)
  <2>1. /\ clientGenerations' = [clientGenerations EXCEPT ![id] = p.gen]
        /\ suspended' = [suspended EXCEPT ![id] =
              [m \in Models |-> IF m \in clientModels[id] THEN p.suspend[m] ELSE @[m]]]
    BY <1>3 DEF ApplyClientModelProjections
  <2>2. /\ clientGenerations'[id] = p.gen
        /\ \A m \in clientModels[id] : suspended'[id][m] = p.suspend[m]
        /\ \A o \in Clients \ {id} : /\ suspended'[o] = suspended[o]
                                     /\ clientGenerations'[o] = clientGenerations[o]
    BY <1>1, <2>1 DEF Inv, TypeOK
  <2>3. ASSUME NEW o \in Clients, o # id PROVE Agreeing(o)'
    BY <1>1, <2>2, <2>3, ElsewhereAgreeing DEF AgreeInv
  <2>4. ASSUME First(id)' PROVE NoneAhead(id)' /\ (OnItsWay(id)' \/ Arrived(id)')
    <3>1. First(id) /\ NoneAhead(id) /\ (OnItsWay(id) \/ Arrived(id)) /\ manager[id].gen \in Nat
      BY <1>1, <2>4 DEF First, AgreeInv, Agreeing, Inv, TypeOK, AuthSet
    <3>2. 1 <= p.gen /\ p.gen <= manager[id].gen
          /\ (p.gen = manager[id].gen => Reflects(p.suspend, manager[id], Models))
      BY <3>1 DEF NoneAhead
    <3>3. NoneAhead(id)'
      BY <1>1, <2>2, <3>1, <3>2 DEF NoneAhead, Reflects
    <3>4. CASE p.gen = manager[id].gen
      <4>1. Arrived(id)'
        BY <1>1, <2>2, <3>2, <3>4 DEF Arrived, Reflects
      <4> QED BY <3>3, <4>1
    <3>5. CASE p.gen < manager[id].gen
      <4>1. ~Arrived(id)
        BY <1>1, <1>3, <3>1, <3>2, <3>5 DEF Arrived, Accepted, Inv, TypeOK
      <4>2. OnItsWay(id)'
        BY <1>1, <3>1, <3>5, <4>1 DEF OnItsWay, Latest
      <4> QED BY <3>3, <4>2
    <3> QED BY <1>1, <3>1, <3>2, <3>4, <3>5
  <2>5. Agreeing(id)'
    BY <1>1, <2>4 DEF AgreeInv, Agreeing
  <2> QED BY <2>3, <2>5 DEF AgreeInv
<1> QED BY <1>2, <1>3

\* Every step keeps every client agreeing.
LEMMA AgreeStep == Inv /\ AgreeInv /\ [Next]_vars => AgreeInv'
<1> SUFFICES ASSUME Inv, AgreeInv, [Next]_vars PROVE AgreeInv'
  OBVIOUS
<1>0. \A id \in Clients : authEpochs[id] \in Nat /\ clientEpochs[id] \in Nat
  BY DEF Inv, TypeOK
<1>1. ASSUME NEW id \in Clients, NEW m \in Models,
             NEW outcome \in {"success", "failure", "skipped", "quota", "credentialQuota"},
             MarkResult(id, m, outcome)
      PROVE  AgreeInv'
  <2> DEFINE b == After(manager[id], m, outcome)
             a == [b EXCEPT !.gen = @ + 1]
  <2>1. manager[id] \in AuthSet
    BY <1>1 DEF Inv, TypeOK, MarkResult
  <2>2. a \in AuthSet
    BY <2>1, OutcomeType
  <2>3. b.epoch = manager[id].epoch /\ b.gen = manager[id].gen
    BY <2>1, SameVersion
  <2>4. a.epoch = b.epoch /\ a.gen = b.gen + 1
    <3> HIDE DEF b
    <3> QED BY <2>2 DEF AuthSet
  <2>5. /\ manager' = [manager EXCEPT ![id] = a] /\ manager[id] # None
        /\ projecting' = projecting \cup {Projection(a, None, id)}
        /\ UNCHANGED <<authEpochs, reconcileDue, registryVars>>
    BY <1>1 DEF MarkResult
  <2> HIDE DEF a, b
  <2> QED BY <2>2, <2>3, <2>4, <2>5, NewVersionAgreeing
<1>2. ASSUME NEW id \in Clients, ResetQuota(id) PROVE AgreeInv'
  <2> DEFINE b == ResetTo(manager[id])
             a == [b EXCEPT !.gen = @ + 1]
  <2>1. manager[id] \in AuthSet
    BY <1>2 DEF Inv, TypeOK, ResetQuota
  <2>2. a \in AuthSet
    BY <2>1, ResetType
  <2>3. b.epoch = manager[id].epoch /\ b.gen = manager[id].gen
    BY <2>1, SameVersion
  <2>4. a.epoch = b.epoch /\ a.gen = b.gen + 1
    <3> HIDE DEF b
    <3> QED BY <2>2 DEF AuthSet
  <2>5. /\ manager' = [manager EXCEPT ![id] = a] /\ manager[id] # None
        /\ projecting' = projecting \cup {Projection(a, None, id)}
        /\ UNCHANGED <<authEpochs, reconcileDue, registryVars>>
    BY <1>2 DEF ResetQuota
  <2> HIDE DEF a, b
  <2> QED BY <2>2, <2>3, <2>4, <2>5, NewVersionAgreeing
<1>3. ASSUME NEW id \in Clients, Expire(id) PROVE AgreeInv'
  BY <1>3, ExpireAgreeing
<1>4. ASSUME NEW id \in Clients, Register(id) \/ Remove(id) PROVE AgreeInv'
  <2>1. /\ ~First(id)' /\ authEpochs'[id] >= 1
        /\ \A o \in Clients \ {id} : manager'[o] = manager[o] /\ authEpochs'[o] = authEpochs[o]
        /\ UNCHANGED <<projecting, reconcileDue, registryVars>>
    <3>1. CASE Register(id)
      BY <1>0, <3>1 DEF Register, First, Fresh, AgreeInv, Agreeing, Inv, TypeOK
    <3>2. CASE Remove(id)
      BY <1>0, <3>2 DEF Remove, First, AgreeInv, Agreeing, Inv, TypeOK
    <3> QED BY <1>4, <3>1, <3>2
  <2>2. ASSUME NEW o \in Clients \ {id} PROVE Agreeing(o)'
    BY <2>1, ElsewhereAgreeing DEF AgreeInv, registryVars
  <2> QED BY <2>1, <2>2 DEF AgreeInv, Agreeing
<1>5. ASSUME NEW id \in Clients, ReconcileRegistryModelStates(id) PROVE AgreeInv'
  <2>1. CASE manager[id] = None
    <3>1. ~First(id)' /\ UNCHANGED <<manager, projecting, authEpochs, registryVars>>
          /\ reconcileDue' = reconcileDue \ {id}
      BY <1>5, <2>1 DEF ReconcileRegistryModelStates, First
    <3>2. ASSUME NEW o \in Clients \ {id} PROVE Agreeing(o)'
      BY <3>1, ElsewhereAgreeing DEF AgreeInv, registryVars
    <3> QED BY <3>1, <3>2 DEF AgreeInv, Agreeing
  <2>2. CASE manager[id] # None
    <3> DEFINE a == Reconciled(manager[id], clientModels[id])
    <3>1. manager[id] \in AuthSet /\ clientModels[id] \in SUBSET Models
      BY <2>2 DEF Inv, TypeOK
    <3>2. /\ a \in AuthSet /\ a.epoch = manager[id].epoch
          /\ a = manager[id] \/ a.gen = manager[id].gen + 1
      BY <3>1, ReconcileType, ReconciledVersion
    <3>3. /\ manager' = [manager EXCEPT ![id] = a]
          /\ projecting' = projecting \cup {Projection(a, clientEpochs[id], id)}
          /\ reconcileDue' = reconcileDue \ {id} /\ UNCHANGED <<authEpochs, registryVars>>
      BY <1>5, <2>2 DEF ReconcileRegistryModelStates
    <3> HIDE DEF a
    <3> QED BY <2>2, <3>2, <3>3, NewVersionAgreeing
  <2> QED BY <2>1, <2>2
<1>6. ASSUME NEW id \in Clients, NEW models \in SUBSET Models, RegisterClient(id, models)
      PROVE  AgreeInv'
  <2>1. /\ UNCHANGED <<manager, authEpochs, projecting>> /\ id \in reconcileDue'
        /\ reconcileDue \subseteq reconcileDue'
        /\ clientModels'[id] = models /\ (models # {} => clientGenerations'[id] = 0)
        /\ \A o \in Clients \ {id} :
              /\ clientModels'[o] = clientModels[o] /\ clientEpochs'[o] = clientEpochs[o]
              /\ clientGenerations'[o] = clientGenerations[o] /\ suspended'[o] = suspended[o]
    BY <1>6 DEF RegisterClient, Unmarked, Inv, TypeOK, mgrVars
  <2>2. ASSUME NEW o \in Clients \ {id} PROVE Agreeing(o)'
    BY <2>1, ElsewhereAgreeing DEF AgreeInv
  <2>3. ASSUME First(id)' PROVE NoneAhead(id)' /\ OnItsWay(id)'
    <3>1. NoneAhead(id) /\ manager[id].gen \in Nat
      BY <2>1, <2>3 DEF First, AgreeInv, Agreeing, Inv, TypeOK, AuthSet
    <3> QED BY <2>1, <3>1 DEF NoneAhead, OnItsWay, Reflects
  <2> QED BY <2>1, <2>2, <2>3 DEF AgreeInv, Agreeing
<1>7. ASSUME NEW p \in projecting, GetModelsAndEpochForClient(p) PROVE AgreeInv'
  <2> DEFINE q == [p EXCEPT !.regEpoch = clientEpochs[p.client]]
  <2>1. /\ UNCHANGED <<manager, authEpochs, reconcileDue, registryVars>>
        /\ projecting' = (projecting \ {p}) \cup {q} /\ p \in ProjectionSet
    BY <1>7 DEF GetModelsAndEpochForClient, mgrVars, Inv, TypeOK
  <2>2. /\ q.client = p.client /\ q.gen = p.gen /\ q.suspend = p.suspend
        /\ q.regEpoch = clientEpochs[p.client] /\ p.client \in Clients
    BY <2>1 DEF ProjectionSet
  <2> HIDE DEF q
  <2>3. ASSUME NEW id \in Clients, First(id)'
        PROVE  NoneAhead(id)' /\ (OnItsWay(id)' \/ Arrived(id)')
    <3>1. First(id) /\ NoneAhead(id) /\ (OnItsWay(id) \/ Arrived(id))
      BY <2>1, <2>3 DEF First, AgreeInv, Agreeing
    <3>2. NoneAhead(id)'
      BY <2>1, <2>2, <3>1 DEF NoneAhead, registryVars, Reflects
    <3>3. Arrived(id) => Arrived(id)'
      BY <2>1 DEF Arrived, registryVars, Reflects
    <3>4. OnItsWay(id) => OnItsWay(id)'
      <4>1. ASSUME Latest(p, id)
            PROVE  /\ q.client = id /\ q.gen = manager'[id].gen
                   /\ q.regEpoch \in {None, clientEpochs'[id]}
        BY <2>1, <2>2, <4>1 DEF Latest, registryVars
      <4>2. ASSUME NEW r \in projecting, Latest(r, id) PROVE Latest(r, id)'
        BY <2>1, <4>2 DEF Latest, registryVars
      <4> QED BY <2>1, <4>1, <4>2 DEF OnItsWay, Latest
    <3> QED BY <3>1, <3>2, <3>3, <3>4
  <2> QED BY <2>1, <2>3 DEF AgreeInv, Agreeing
<1>8. ASSUME NEW p \in projecting, ApplyClientModelProjections(p) PROVE AgreeInv'
  BY <1>8, ApplyAgreeing
<1>9. ASSUME NEW id \in Clients, NEW m \in Models, WindowPasses(id, m) PROVE AgreeInv'
  <2>1. UNCHANGED <<manager, authEpochs, projecting, reconcileDue, suspended, clientModels,
                    clientEpochs, clientGenerations>>
    BY <1>9 DEF WindowPasses, mgrVars
  <2> QED BY <2>1, ElsewhereAgreeing DEF AgreeInv
<1>10. CASE UNCHANGED vars
  BY <1>10, ElsewhereAgreeing DEF vars, AgreeInv
<1> QED BY <1>1, <1>2, <1>3, <1>4, <1>5, <1>6, <1>7, <1>8, <1>9, <1>10 DEF Next

\* Once the projections of a credential that was never removed have arrived, in
\* whatever order and between whichever registrations of its models, the
\* registry suspends what the manager blocks and nothing the manager has cleared.
THEOREM ProjectionsAgree == Spec => []RegistryAgreement
<1>1. Init => AgreeInv
  <2> SUFFICES ASSUME Init, NEW id \in Clients PROVE Agreeing(id)
    BY DEF AgreeInv
  <2>1. manager[id] = Fresh(1) /\ authEpochs[id] = 1 /\ suspended[id] = [m \in Models |-> "none"]
        /\ clientModels[id] = Models /\ clientGenerations[id] = 0
    BY DEF Init
  <2>2. manager[id].gen = 1 /\ \A m \in Models : ~BlockedFor(manager[id], m)
    BY <2>1 DEF Fresh, BlockedFor, State, Clean
  <2> QED BY <2>1, <2>2 DEF Init, Agreeing, NoneAhead, Arrived, Reflects
<1>2. AgreeInv => RegistryAgreement
  BY DEF AgreeInv, Agreeing, First, Quiet, OnItsWay, Latest, Arrived, Reflects, RegistryAgreement
<1> QED BY <1>1, <1>2, AgreeStep, InitInv, NextInv, PTL DEF Spec

=============================================================================
