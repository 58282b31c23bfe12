CONSTANTS
  Writers = {w1, w2}
  Deleters = {d1, d2}
  TrashNames = {n1, n2}
  Plain = n1
  Worlds <- WindowsWorlds
  Depth = 2
  MaxNewDirs = 1
  Attempts = 2
  MaxTries = 2
SPECIFICATION Spec
SYMMETRY MCSymmetry
CHECK_DEADLOCK FALSE
PROPERTIES CreateIsExclusive
