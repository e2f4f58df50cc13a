SPECIFICATION Spec
CHECK_DEADLOCK FALSE
CONSTANTS
  None = None
  MaxZoom = 0
  Sizes = {1}
  Configs = {c1, c2}
  BaseLayer = "base"
  Layers = {}
  b = b
  Bounds = {b}
  FitCamera <- MCFitCamera
  Views = {v1, v2}
  Controllers = {1, 2, 3, 4, 5}
  AppControllers = 1
  Calls <- FewCalls
  UsesEngine = TRUE
  Gestures = FALSE
INVARIANTS
  SurfaceFollowsView
  SizeFollowsView
  BindingMutual
  NoRendererLeaked
  InternalUsesViewConfig
SYMMETRY Symmetry
