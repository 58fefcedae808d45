SPECIFICATION Spec
CONSTANTS
  Vehicles = {x1}
  RouteIds = {}
  Viewers = {v1}
  Readers = {v1}
  Nobody = Nobody
  MaxStalledTicks = 1
  MaxTicks = 2
INVARIANT ReadySnapshotIsWholeFleet
CHECK_DEADLOCK FALSE
