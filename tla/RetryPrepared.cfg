SPECIFICATION Spec
CONSTANTS
  p = p
  q = q
  Auths = {p, q}
  Pool <- MCPool
  RequestRetry <- MCRequestRetry
  CoolFor <- MCCoolFor
  CredentialCaps = {0, 1}
  MaxRetryInterval = 1
  MinQuotaCooldownFloor = 1
  BootstrapRetries = 1
  CoolingDisabled = {}
  ClaudeOAuth = {p}
  Preparing = {q}
  Contended = {q}
  MaxOthers = 1
CHECK_DEADLOCK FALSE
INVARIANT PreparedAuthUsed
