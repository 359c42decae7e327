SPECIFICATION Spec
CONSTANTS
  Auths = {a1}
  Loaded = {}
  Models = {A, B}
  AnyModel = AnyModel
  None = None
  Ops = {"unauthorized", "neutral", "register", "remove", "update", "reset", "rebuild"}
  CoolFor = 1
  Expiries = {2}
  MaxTime = 1
  MaxOps = 6
SYMMETRY ModelSymmetry
INVARIANTS PublicationInv RemovedStaysOut
PROPERTY VersionsNeverRegress
