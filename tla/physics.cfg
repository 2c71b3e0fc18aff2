SPECIFICATION Spec
CONSTANTS
  Ids = {1, 2}
  Speed <- MCSpeed
  Length <- MCLength
  MAX_TRAINS = 2
  Scale = 2
  TrackLength = 3
  Horizon = 5
INVARIANTS CollisionIsOverlap OccupancyIsCover ArrivalIsFirst ClearanceIsExact
