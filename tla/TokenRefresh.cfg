SPECIFICATION Spec
CONSTANTS
  Credentials = {c1}
  Workers = {w1}
  Requests = {q1}
  Capacity = 1
  Lead = 1
  Backoff = 1
  MaxTime = 2
  MaxEvents = 2
  Recoveries = FALSE
  Overlap = FALSE
INVARIANTS NeverForgotten NeverAsleep RefreshTokenUsedOnce TokenOfThisIncarnation
CHECK_DEADLOCK FALSE
