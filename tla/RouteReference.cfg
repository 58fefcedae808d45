SPECIFICATION Spec
CONSTANTS
  Vehicles = {x1}
  RouteIds = {r1, r2}
  Viewers = {v1}
  Readers = {v1}
  Nobody = Nobody
  MaxStalledTicks = 1
  MaxTicks = 2
INVARIANT ReferencedRoutesWereGiven
CHECK_DEADLOCK FALSE
