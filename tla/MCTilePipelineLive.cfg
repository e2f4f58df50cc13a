SPECIFICATION FairSpec
CONSTANTS
  a = a
  b = b
  here = here
  east = east
  Tiles <- MCTiles
  PriorityLevels <- MCPriorities
  Faults <- NoFaults
  MaxConcurrentFetches = 1
  DecodeQueueBound = 1
  InitialFiles = {"bad"}
  DecodeWorkers = 1
  Cameras <- MCCameras
  InvalidCamera = invalid
  Screens = {"screen"}
  InvalidScreen = "refused"
  InitialView <- Hither
  VisibleTiles <- MCVisibleTiles
  PrefetchTier <- NoPrefetch
  TierPriorities <- MCTierPriorities
  Zoom <- MCZoom
  TileBytes <- MCTileBytes
  RamLimit = 2
  GpuLimit = 2
  MaxZoomDistance = 2
  MovingBudget = 2
  IdleBudgets <- MCIdleBudgets
  MovingUploads = 1
  IdleUploads = 2
  LayerIds = {"base"}
  BaseLayer = "base"
  UiCommands <- MCUiCommands
  MaxUiCommands = 2
PROPERTIES VisibleTileLoadsUnlessDiscarded DropEnds
