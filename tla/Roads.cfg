SPECIFICATION Spec
CONSTANTS
  Place <- MCPlace
  Tolerance = 1
  ServiceArea <- MCServiceArea
  Zones <- MCZones
  Extracts <- MCExtracts
  Metres <- MCMetres
  TripMin = 5
  TripMax = 14
  NoLink = NoLink
INVARIANTS IntersectionsReachEachOther JourneysAreShortest StaysOnStreets ShownRouteIsDriven
           NobodyIsStranded
PROPERTY SearchesNearestFirst
