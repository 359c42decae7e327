SPECIFICATION FairSpec
CONSTANTS
  Requests = {r1, r2}
  Cancellable = {r1}
  Capacity = 1
  MaxChunks = 2
INVARIANTS NoPanic OneEnding NoFrameLost NoOrphan
PROPERTIES ClosedLetsGo CancelledLetsGo
CHECK_DEADLOCK FALSE
