SPECIFICATION Spec
CONSTANTS
  t1 = t1
  t2 = t2
  t3 = t3
  t4 = t4
  here = here
  east = east
  far = far
  Tiles <- MCTiles
  PriorityLevels <- MCPriorities
  Faults <- MCFaults
  invalid = invalid
  narrow = narrow
  wide = wide
  refused = refused
  Cameras <- MCCameras
  InvalidCamera = invalid
  Screens <- MCScreens
  InvalidScreen = refused
  InitialView <- MCInitialView
  VisibleTiles <- MCVisibleTiles
  PrefetchTier <- MCPrefetchTier
  TierPriorities <- MCTierPriorities
  Zoom <- MCZoom
  TileBytes <- MCTileBytes
  RamLimit = 3
  GpuLimit = 2
  MaxZoomDistance = 2
  MovingBudget = 1
  IdleBudgets <- MCIdleBudgets
  MovingUploads = 1
  IdleUploads = 2
  LayerIds <- BothLayers
  BaseLayer = "base"
  UiCommands <- MCUiCommands
  MaxUiCommands = 4
  MaxBacklog = 1
INVARIANTS WorkerTypeOK PendingConsistent RequestsWithinBudget ScreenIsCurrent
INVARIANTS CachesWellFormed MemoryBounded NothingForgotten
PROPERTY EvictionSparesVisible
