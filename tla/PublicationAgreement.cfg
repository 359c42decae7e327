SPECIFICATION Spec
CONSTANTS
  Auths = {a1}
  Loaded = {a1}
  Models = {A, B}
  AnyModel = AnyModel
  None = None
  Ops = {"success", "failure", "credentialQuota", "update", "models"}
  CoolFor = 1
  Expiries = {2, 9}
  MaxTime = 3
  MaxOps = 3
SYMMETRY ModelSymmetry
INVARIANT QuiescentAgreement
