SPECIFICATION Spec
CONSTANTS
  Files = {f1}
  Runtime = {}
  MaxChanges = 2
  MaxReloads = 0
  Overlap = FALSE
INVARIANT HotReload
CHECK_DEADLOCK FALSE
