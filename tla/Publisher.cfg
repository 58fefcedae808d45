SPECIFICATION FairSpec
CONSTANTS
  Vehicles = {x1}
  RouteIds = {r1}
  Viewers = {v1}
  Readers = {v1}
  Nobody = Nobody
  MaxStalledTicks = 1
  MaxTicks = 4
INVARIANTS TypeOK SettledViewerHasPublishedRoutes OnlyLaggardsAreDropped NeverClosedTwice
PROPERTIES ClientMovesForward DroppedViewersLeave
CHECK_DEADLOCK FALSE
