SPECIFICATION Spec
CHECK_DEADLOCK FALSE
CONSTANTS
  app1 = app1
  app2 = app2
  Callers <- MCCallers
  Requests <- MCRequests
  Cameras <- MCCameras
  Screens <- MCScreens
  Rates = {1, 8}
  MaxZoom = 2
  TileSize = 8
  Parts = 2
  Radius = 2
  NoViewport = NoViewport
  NoScreen = NoScreen
  NoCamera = NoCamera
  MaxU32 = 4
  MaxCalls = 4
  Layers <- MCLayers
  LayerIds = {1, 2, 3, 4}
  Opacities = {"opaque", "faint", "refused"}
  MaxLayerZoom = 30
INVARIANT EngineTypeOK
INVARIANT ViewCovered
INVARIANT DrawnInPlace
INVARIANT PlanFollowsView
INVARIANT StackInOrder
PROPERTY EngineIsAtomic
SYMMETRY Symmetry
