SPECIFICATION FairSpec
CONSTANTS
  Files = {f1}
  Runtime = {r1}
  MaxChanges = 2
  MaxReloads = 1
  Overlap = FALSE
INVARIANTS TypeOK NothingMissed
PROPERTIES FollowsFeed Delivered
CHECK_DEADLOCK FALSE
