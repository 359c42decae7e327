SPECIFICATION Spec
CONSTANTS
  Clients = {c1}
  Models = {A, B}
  None = None
  Ops = {"success", "failure", "credentialQuota", "reset", "models", "remove", "register"}
  MaxOps = 4
SYMMETRY ProjectionSymmetry
INVARIANTS RegistryAgreement UnregisteredHoldsNothing
CHECK_DEADLOCK FALSE
