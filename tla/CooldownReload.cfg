SPECIFICATION Spec
CONSTANTS
  Models = {A, B}
  Absent = Absent
  QuotaBase = 1
  QuotaMax = 4
  QuotaFloor = 2
  AuthCooldown = 3
  SupportCooldown = 5
  TransientCooldown = 2
  TransientDisabled = FALSE
  Hints = {3}
  Longest = 5
  KindsSeen = {"unauthorized", "notFound", "quota", "cloudflare", "transient"}
  ModelLess = TRUE
  MaxTime = 4
  MaxResults = 2
  MaxReloads = 2
  MaxCrashes = 1
SYMMETRY ModelSymmetry
INVARIANT RestartKeepsBlocks
PROPERTIES DisabledCoolingBlocksNothing ReloadChangesNothing
CHECK_DEADLOCK FALSE
