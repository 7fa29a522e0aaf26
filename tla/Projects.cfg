SPECIFICATION Spec
CONSTANTS
  project = project
  home = home
  c = c
  py = py
  Bufs <- MCBufs
  Dirs <- MCDirs
  NoRecurse <- MCNoRecurse
  Types <- MCTypes
  Early = FALSE
  MaxMessages = 3
  MaxVersion = 2
  None = None
SYMMETRY Alike
INVARIANTS TypeOK DirsCounted UseSafe CurrentShown
CHECK_DEADLOCK FALSE
