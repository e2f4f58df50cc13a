SPECIFICATION FairSpec
CONSTANTS
  Tiles = {a, b}
  PriorityLevels <- MCPriorities
  MaxConcurrentFetches = 1
  DecodeQueueBound = 1
  InitialFiles = {"none", "bad"}
  DecodeWorkers = 2
  Faults <- MCFaults
  MaxRequests = 3
  MaxGeneration = 1
INVARIANTS LoaderTypeOK InFlightExact OneStagePerTile NothingLeftBehind
PROPERTIES GoodTileStaysCached InFlightEnds ShutdownEnds
