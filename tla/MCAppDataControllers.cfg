CONSTANTS
  RequestDepth = 2
  ResultDepth = 1
  EntityCount = 3
  IdCount = 2
  RefreshTicks <- MCRefreshTicks
SPECIFICATION FairSpec
INVARIANTS OneOnItsWay NothingDropped
PROPERTIES CycleCoversEntities PageRefreshed
