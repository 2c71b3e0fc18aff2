SPECIFICATION RingSpec
CONSTANTS
  Trains = {1, 2, 3}
  Powered = {}
  Start <- MCOwnStart
  Requestable <- MCRing
  MAX_TRAINS = 3
  MAX_TRACKS = 3
  TRACK_COUNT = 3
  TrackLines <- MCTriangle
  CHECK_EVERY = 2
  StuckAfter = 0
INVARIANTS Exclusive
PROPERTIES ReservesBlocks RollbackOnlyOnCycle
