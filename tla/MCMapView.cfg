SPECIFICATION Spec
CHECK_DEADLOCK FALSE
CONSTANTS
  None = None
  MaxZoom = 1
  Sizes = {1}
  Configs = {c1, c2}
  BaseLayer = "base"
  Layers = {"roads"}
  b = b
  Bounds = {b}
  FitCamera <- MCFitCamera
  Views = {v1}
  Controllers = {1, 2, 3}
  AppControllers = 1
  Calls <- ManyCalls
  UsesEngine = FALSE
  Gestures = TRUE
INVARIANTS
  ViewTypeOK
  CameraInSync
  LayersAgree
  DestroyedStaysQuiet
  FitWaitsForSize
  ViewRemembersCamera
  NoCheckFails
SYMMETRY Symmetry
