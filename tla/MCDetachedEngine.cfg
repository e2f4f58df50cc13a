SPECIFICATION Spec
CHECK_DEADLOCK FALSE
CONSTANTS
  None = None
  MaxZoom = 0
  Sizes = {1}
  Configs = {c1}
  BaseLayer = "base"
  Layers = {}
  b = b
  Bounds = {b}
  FitCamera <- MCFitCamera
  Views = {v1}
  Controllers = {1, 2, 3}
  AppControllers = 0
  Calls <- FewCalls
  UsesEngine = TRUE
  Gestures = FALSE
INVARIANTS
  NoCheckFails
SYMMETRY Symmetry
