SPECIFICATION Spec
CHECK_DEADLOCK FALSE
CONSTANTS
  app1 = app1
  app2 = app2
  loader = loader
  f1 = f1
  f2 = f2
  f3 = f3
  f4 = f4
  NoFile = NoFile
  Tiles = {"t"}
  Callers <- MCCallers
  Loaders = {loader}
  Contents = {"good", "bad"}
  Downloads = {"good", "bad", "error"}
  Inodes <- MCInodes
  Nonces = {1, 2, 3}
  Chunks = 2
  MaxLoads = 2
PROPERTY OnlyUndecodableRemoved
SYMMETRY Symmetry
