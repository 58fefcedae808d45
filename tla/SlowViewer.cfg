SPECIFICATION FairSpec
CONSTANTS
  Vehicles = {x1}
  RouteIds = {}
  Viewers = {v1, v2}
  Readers = {v1}
  Nobody = Nobody
  MaxStalledTicks = 0
  MaxTicks = 2
PROPERTY PublicationReachesReaders
CHECK_DEADLOCK FALSE
