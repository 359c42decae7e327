SPECIFICATION FairSpec
CONSTANTS
  Groups = {g1}
  Unaccounted = Unaccounted
  MaxDispatches = 2
  MaxBarrier = 1
  MaxEvents = 1
INVARIANTS SlotsNotFreedEarly EveryReleaseReported BarrierCovers NothingLeftOpen
PROPERTIES KeepsLedger DrainEnds TicketsComplete
CHECK_DEADLOCK FALSE
