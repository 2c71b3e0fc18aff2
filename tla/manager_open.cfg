SPECIFICATION Spec
CONSTANTS
  Trains = {1,2}
  Powered = {}
  Start <- MCSharedStart
  Requestable <- MCAnyBlock
  MAX_TRAINS = 2
  MAX_TRACKS = 4
  TRACK_COUNT = 3
  TrackLines <- MCTriangle
  CHECK_EVERY = 1
  StuckAfter = 0
INVARIANTS TypeOK SlotsAligned ExclusiveOffStarts HoldsAreOwned RerouteIsFree
PROPERTIES NoTakeover
