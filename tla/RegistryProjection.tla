------------------------- MODULE RegistryProjection -------------------------
(***************************************************************************)
(* How the availability that Manager keeps reaches the global model        *)
(* registry, which decides what /v1/models lists.  An operation changes    *)
(* the credential under Manager.mu and unlocks; only then does it read the *)
(* credential's registration epoch, and only after that does it apply its  *)
(* projection, so other projections, registrations and removals may come   *)
(* in between.  Deadlines are reduced to whether they have passed.         *)
(***************************************************************************)
EXTENDS Integers, FiniteSets

CONSTANTS Clients, Models, None,
          Ops,            \* the operations that occur
          MaxOps          \* bound on the run

AllOps == {"success", "failure", "skipped", "quota", "credentialQuota",
           "reset", "register", "remove", "models"}
ASSUME BoundAssumption == Ops \subseteq AllOps /\ MaxOps \in Nat

VARIABLES ops,
          manager,      \* Manager.auths
          authEpochs,   \* Manager.authEpochs
          projecting,   \* projections computed and not yet applied
          reconcileDue, \* clients registered and not yet reconciled
          clientModels, clientEpochs, clientGenerations,  \* the registry
          suspended,    \* SuspendedClients: the reason
          exceeded      \* QuotaExceededClients: within the window, or older

mgrVars == <<manager, authEpochs>>
markVars == <<suspended, exceeded>>
registryVars == <<clientModels, clientEpochs, clientGenerations, suspended, exceeded>>
vars == <<ops, manager, authEpochs, projecting, reconcileDue,
          clientModels, clientEpochs, clientGenerations, suspended, exceeded>>

\* A ModelState: "blocked" until its deadline, "lapsed" once that has passed
\* and nobody has looked; whether its quota window is open; the quota's reason.
StateSet == [status : {"ok", "blocked", "lapsed"}, open : BOOLEAN,
             reason : {"", "error", "quota", "credential_quota"}]
ASSUME NoneAssumption == None \notin Nat \cup StateSet
Clean == [status |-> "ok", open |-> FALSE, reason |-> ""]
AuthSet == [epoch : Nat, gen : Nat, state : [Models -> StateSet \cup {None}],
            credential : {"none", "open", "lapsed"}]
Reasons == {"none", "quota", "other"}
Windows == {"none", "fresh", "old"}
ProjectionSet == [client : Clients, epoch : Nat, gen : Nat, suspend : [Models -> Reasons],
                  exceed : [Models -> BOOLEAN], regEpoch : Nat \cup {None}]

-----------------------------------------------------------------------------
\* The credential.

Fresh(epoch) == [epoch |-> epoch, gen |-> 1, state |-> [m \in Models |-> None],
                 credential |-> "none"]
Tracked(a) == {m \in Models : a.state[m] # None}
State(a, m) == IF a.state[m] = None THEN Clean ELSE a.state[m]

\* While a credential quota is open nothing is looked at.
updateAggregatedAvailability(a) ==
  IF a.credential = "open" THEN a
  ELSE [a EXCEPT !.credential = "none",
                 !.state = [m \in Models |-> IF m \in Tracked(a) /\ a.state[m].status = "lapsed"
                                             THEN [a.state[m] EXCEPT !.status = "ok"]
                                             ELSE a.state[m]]]

Succeeded(a, m) ==
  IF a.credential = "open" THEN a
  ELSE updateAggregatedAvailability([a EXCEPT !.state[m] = Clean])

\* A quota's reason survives the failures that follow it.
Failed(a, m) ==
  LET Blocked(s) == [s EXCEPT !.status = "blocked",
                              !.reason = IF @ \in {"quota", "credential_quota"}
                                         THEN @ ELSE "error"]
  IN  updateAggregatedAvailability([a EXCEPT !.state[m] = Blocked(State(a, m))])

OverQuota(reason) == [status |-> "blocked", open |-> TRUE, reason |-> reason]
QuotaExceeded(a, m) ==
  updateAggregatedAvailability([a EXCEPT !.state[m] = OverQuota("quota")])
CredentialQuotaExceeded(a, m) ==
  [a EXCEPT !.credential = "open",
            !.state = [o \in Models |-> IF o = m THEN OverQuota("quota")
                                        ELSE IF o \in Tracked(a)
                                             THEN OverQuota("credential_quota") ELSE None]]

After(a, m, outcome) ==
  CASE outcome = "success" -> Succeeded(a, m)
    [] outcome = "failure" -> Failed(a, m)
    [] outcome = "skipped" -> a
    [] outcome = "quota" -> QuotaExceeded(a, m)
    [] outcome = "credentialQuota" -> CredentialQuotaExceeded(a, m)

ResetTo(a) ==
  [a EXCEPT !.credential = "none",
            !.state = [m \in Models |-> IF m \in Tracked(a) THEN Clean ELSE None]]

\* States of models no longer registered go, those past their deadline are reset.
Reconciled(a, models) ==
  LET Kept(m) == IF a.state[m] = None \/ m \notin models THEN None
                 ELSE IF a.state[m].status = "blocked" \/ a.state[m].open THEN a.state[m]
                 ELSE Clean
      state == [m \in Models |-> Kept(m)]
  IN  IF state = a.state THEN a
      ELSE [updateAggregatedAvailability([a EXCEPT !.state = state]) EXCEPT !.gen = @ + 1]

-----------------------------------------------------------------------------
\* clientModelProjectionForAuth, for every model.

SuspendReason(a, m) ==
  LET s == State(a, m)
  IN  IF ~(s.status # "ok" \/ a.credential = "open") THEN "none"
      ELSE IF s.reason = "quota" THEN "quota" ELSE "other"

Projection(a, regEpoch, id) ==
  [client |-> id, epoch |-> a.epoch, gen |-> a.gen, regEpoch |-> regEpoch,
   suspend |-> [m \in Models |-> SuspendReason(a, m)],
   exceed |-> [m \in Models |-> State(a, m).open]]

-----------------------------------------------------------------------------
\* After startup: every credential is known, and its models are registered.
Init ==
  /\ ops = 0
  /\ manager = [id \in Clients |-> Fresh(1)]
  /\ authEpochs = [id \in Clients |-> 1]
  /\ projecting = {} /\ reconcileDue = {}
  /\ clientModels = [id \in Clients |-> Models]
  /\ clientEpochs = [id \in Clients |-> 1]
  /\ clientGenerations = [id \in Clients |-> 0]
  /\ suspended = [id \in Clients |-> [m \in Models |-> "none"]]
  /\ exceeded = [id \in Clients |-> [m \in Models |-> "none"]]

Operation(op) == op \in Ops /\ ops < MaxOps /\ ops' = ops + 1

\* MarkResult and ResetQuota up to the unlock.
MarkResult(id, m, outcome) ==
  /\ Operation(outcome) /\ manager[id] # None
  /\ LET a == [After(manager[id], m, outcome) EXCEPT !.gen = @ + 1]
     IN  /\ manager' = [manager EXCEPT ![id] = a]
         /\ projecting' = projecting \cup {Projection(a, None, id)}
  /\ UNCHANGED <<authEpochs, reconcileDue>> /\ UNCHANGED registryVars

ResetQuota(id) ==
  /\ Operation("reset") /\ manager[id] # None
  /\ LET a == [ResetTo(manager[id]) EXCEPT !.gen = @ + 1]
     IN  /\ manager' = [manager EXCEPT ![id] = a]
         /\ projecting' = projecting \cup {Projection(a, None, id)}
  /\ UNCHANGED <<authEpochs, reconcileDue>> /\ UNCHANGED registryVars

\* The deadlines of one model, or of the credential, pass.
Expire(id) ==
  /\ manager[id] # None
  /\ \/ \E m \in Tracked(manager[id]) :
          /\ manager[id].state[m].status = "blocked"
          /\ manager' = [manager EXCEPT ![id].state[m].status = "lapsed",
                                        ![id].state[m].open = FALSE]
     \/ /\ manager[id].credential = "open"
        /\ manager' = [manager EXCEPT ![id].credential = "lapsed"]
  /\ UNCHANGED <<ops, authEpochs, projecting, reconcileDue>> /\ UNCHANGED registryVars

\* The service registers a new credential, and removes one after its models.
Register(id) ==
  /\ Operation("register") /\ manager[id] = None
  /\ authEpochs' = [authEpochs EXCEPT ![id] = @ + 1]
  /\ manager' = [manager EXCEPT ![id] = Fresh(authEpochs[id] + 1)]
  /\ UNCHANGED <<projecting, reconcileDue>> /\ UNCHANGED registryVars

Remove(id) ==
  /\ Operation("remove") /\ manager[id] # None /\ clientModels[id] = {}
  /\ manager' = [manager EXCEPT ![id] = None]
  /\ authEpochs' = [authEpochs EXCEPT ![id] = @ + 1]
  /\ UNCHANGED <<projecting, reconcileDue>> /\ UNCHANGED registryVars

-----------------------------------------------------------------------------
\* The registry, one critical section of its mutex per action.

Unmarked(id) == /\ suspended' = [suspended EXCEPT ![id] = [m \in Models |-> "none"]]
                /\ exceeded' = [exceeded EXCEPT ![id] = [m \in Models |-> "none"]]

\* Seeded fault: a registration leaves the marks of the one before.
RegisterClientKeepsMarks(id, models) ==
  /\ Operation("models") /\ id \notin reconcileDue /\ manager[id] # None
  /\ clientModels' = [clientModels EXCEPT ![id] = models]
  /\ clientEpochs' = [clientEpochs EXCEPT ![id] = @ + 1]
  /\ clientGenerations' = [clientGenerations EXCEPT ![id] = IF models = {} THEN @ + 1 ELSE 0]
  /\ reconcileDue' = reconcileDue \cup {id}
  /\ UNCHANGED <<projecting, suspended, exceeded>> /\ UNCHANGED mgrVars

\* Without models it is unregisterClientInternal.
RegisterClient(id, models) ==
  /\ Operation("models") /\ id \notin reconcileDue /\ manager[id] # None
  /\ clientModels' = [clientModels EXCEPT ![id] = models]
  /\ clientEpochs' = [clientEpochs EXCEPT ![id] = @ + 1]
  /\ clientGenerations' = [clientGenerations EXCEPT ![id] = IF models = {} THEN @ + 1 ELSE 0]
  /\ Unmarked(id)
  /\ reconcileDue' = reconcileDue \cup {id}
  /\ UNCHANGED projecting /\ UNCHANGED mgrVars

\* The epoch is read under Manager.mu, and read again before the commit.
ReconcileRegistryModelStates(id) ==
  /\ id \in reconcileDue
  /\ reconcileDue' = reconcileDue \ {id}
  /\ IF manager[id] = None THEN UNCHANGED <<manager, projecting>>
     ELSE LET a == Reconciled(manager[id], clientModels[id])
          IN  /\ manager' = [manager EXCEPT ![id] = a]
              /\ projecting' = projecting \cup {Projection(a, clientEpochs[id], id)}
  /\ UNCHANGED <<ops, authEpochs>> /\ UNCHANGED registryVars

GetModelsAndEpochForClient(p) ==
  /\ p.regEpoch = None
  /\ projecting' = (projecting \ {p}) \cup {[p EXCEPT !.regEpoch = clientEpochs[p.client]]}
  /\ UNCHANGED <<ops, reconcileDue>> /\ UNCHANGED mgrVars /\ UNCHANGED registryVars

\* Seeded fault: only the epoch is compared.
AcceptedOfAnyGeneration(p) ==
  clientModels[p.client] # {} /\ p.regEpoch = clientEpochs[p.client]

Accepted(p) == /\ clientModels[p.client] # {}
               /\ p.regEpoch = clientEpochs[p.client]
               /\ p.gen >= clientGenerations[p.client]

\* With the epoch that was read, the models that were read are still the
\* client's.  A quota mark keeps the time it was first set.
ApplyClientModelProjections(p) ==
  LET id == p.client
      Own(m) == m \in clientModels[id]
  IN  /\ p.regEpoch # None
      /\ projecting' = projecting \ {p}
      /\ IF ~Accepted(p) THEN UNCHANGED <<clientGenerations, suspended, exceeded>>
         ELSE /\ clientGenerations' = [clientGenerations EXCEPT ![id] = p.gen]
              /\ suspended' = [suspended EXCEPT ![id] =
                    [m \in Models |-> IF Own(m) THEN p.suspend[m] ELSE @[m]]]
              /\ exceeded' = [exceeded EXCEPT ![id] =
                    [m \in Models |-> IF ~Own(m) THEN @[m]
                                      ELSE IF ~p.exceed[m] THEN "none"
                                      ELSE IF @[m] = "none" THEN "fresh" ELSE @[m]]]
      /\ UNCHANGED <<ops, reconcileDue, clientModels, clientEpochs>> /\ UNCHANGED mgrVars

\* modelQuotaExceededWindow passes.
WindowPasses(id, m) ==
  /\ exceeded[id][m] = "fresh"
  /\ exceeded' = [exceeded EXCEPT ![id][m] = "old"]
  /\ UNCHANGED <<ops, projecting, reconcileDue, suspended>>
  /\ UNCHANGED <<clientModels, clientEpochs, clientGenerations>> /\ UNCHANGED mgrVars

Next ==
  \/ \E id \in Clients, m \in Models :
        \/ \E outcome \in {"success", "failure", "skipped", "quota", "credentialQuota"} :
              MarkResult(id, m, outcome)
        \/ WindowPasses(id, m)
  \/ \E id \in Clients : \/ ResetQuota(id) \/ Expire(id) \/ Register(id) \/ Remove(id)
                         \/ ReconcileRegistryModelStates(id)
  \/ \E id \in Clients, models \in SUBSET Models : RegisterClient(id, models)
  \/ \E p \in projecting : \/ GetModelsAndEpochForClient(p)
                           \/ ApplyClientModelProjections(p)

Spec == Init /\ [][Next]_vars

-----------------------------------------------------------------------------
\* Every variable has its type.
TypeOK ==
  /\ ops \in 0..MaxOps
  /\ manager \in [Clients -> AuthSet \cup {None}]
  /\ authEpochs \in [Clients -> Nat]
  /\ projecting \subseteq ProjectionSet
  /\ reconcileDue \subseteq Clients
  /\ clientModels \in [Clients -> SUBSET Models]
  /\ clientEpochs \in [Clients -> Nat] /\ clientGenerations \in [Clients -> Nat]
  /\ suspended \in [Clients -> [Models -> Reasons]]
  /\ exceeded \in [Clients -> [Models -> Windows]]

\* No projection is on its way to the registry, none is still to come.
Quiet(id) == id \notin reconcileDue /\ \A p \in projecting : p.client # id

BlockedFor(a, m) == State(a, m).status = "blocked" \/ a.credential = "open"
NeverBlockedFor(a, m) == State(a, m).status = "ok" /\ a.credential = "none"

\* Once the projections of a credential have all arrived, in whatever order,
\* the registry suspends every registered model the manager blocks, and no
\* model whose block the manager has cleared; what has merely lapsed may stay
\* suspended until the next result.  (Of a credential that was never removed
\* and registered anew: a projection reads the registry's epoch after the
\* unlock, so one of an earlier incarnation may count as one of the next.)
RegistryAgreement ==
  \A id \in Clients : Quiet(id) /\ manager[id] # None /\ manager[id].epoch = 1 =>
     \A m \in clientModels[id] :
        /\ BlockedFor(manager[id], m) => suspended[id][m] # "none"
        /\ NeverBlockedFor(manager[id], m) => suspended[id][m] = "none"

\* A model a client no longer serves holds no mark of that client, however
\* late a projection comes: the marks are subtracted from the number of the
\* clients that remain.
UnregisteredHoldsNothing ==
  \A id \in Clients : \A m \in Models \ clientModels[id] :
     suspended[id][m] = "none" /\ exceeded[id][m] = "none"
=============================================================================
