SPECIFICATION TimelySpec
CONSTANTS
  Trains = {1, 2, 3}
  Powered = {1, 2, 3}
  Crashable = {2}
  Reruns = TRUE
  ManagerMayStop = TRUE
  TrainLines <- MCRingTrains
  Start <- MCStart
  Destination <- MCDestination
  Requestable <- MCRoutes
  MAX_TRAINS = 2
  MAX_TRACKS = 6
  TRACK_COUNT = 6
  TrackLines <- MCDemoTracks
  CHECK_EVERY = 1
  StuckAfter = 4
  REQUEST_AFTER_TICKS = 2
  COMPLETE_AFTER_TICKS = 1
  REQUEST_RETRY_TICKS = 1
  MAX_NO_PROGRESS_TICKS = 3
  MAX_CONSECUTIVE_DENIES = 5
INVARIANTS RegisteredNotRefused
PROPERTIES ControllerReturns SendsReturn
CHECK_DEADLOCK FALSE
