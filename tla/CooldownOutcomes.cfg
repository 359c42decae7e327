SPECIFICATION Spec
CONSTANTS
  Models = {A, B}
  Absent = Absent
  QuotaBase = 1
  QuotaMax = 4
  QuotaFloor = 2
  AuthCooldown = 3
  SupportCooldown = 5
  TransientCooldown = 2
  TransientDisabled = FALSE
  Hints = {3}
  Longest = 5
  KindsSeen = {"unauthorized", "notFound", "quota", "cloudflare", "transient"}
  ModelLess = FALSE
  MaxTime = 3
  MaxResults = 3
  MaxReloads = 0
  MaxCrashes = 0
SYMMETRY ModelSymmetry
INVARIANTS TypeOK NoWedge
PROPERTIES FailureNeverFrees FailureIsolated SuccessFreesItsModelOnly LadderRisesOncePerWindow
CHECK_DEADLOCK FALSE
